---- MODULE Spec2Model ----
(***************************************************************************)
(* Model of the Gaussian backend of ComChemKit                             *)
(* (src/src/gaussian/gaussian_program.cpp) and of the registry of program  *)
(* factories (src/src/core/cck_qm_program.cpp).                            *)
(*                                                                         *)
(* A file's text is a sequence of symbols.  A symbol is either one         *)
(* character of the classes the regular expressions distinguish (a digit,  *)
(* "-", ".", blank, newline) or one literal phrase of a pattern            *)
(* ("Normal termination of Gaussian", "SCF Done:", "Frequencies --", ...)  *)
(* taken as a unit.  A double is the pair [m, e] standing for m * 10^(-e), *)
(* kept normalised (no trailing zero digit in the fraction).               *)
(***************************************************************************)
EXTENDS Integers, Sequences, FiniteSets, TLC

VARIABLES files, call, extracted, program_registry, registered, build,
          looked_up, workers

vars ==
    <<files, call, extracted, program_registry, registered, build, looked_up,
      workers>>

(***************************************************************************)
(* Bounds of the model                                                     *)
(***************************************************************************)
MaxLines == 2

Paths == {"low.log", "high.log"}

NoFile == <<"<no such file>">>

(***************************************************************************)
(* Character classes of the patterns                                       *)
(***************************************************************************)
Digits == {"0", "1", "2", "3", "4", "5", "6", "7", "8", "9"}

DigitValue ==
    [c \in Digits |->
        CASE c = "0" -> 0 [] c = "1" -> 1 [] c = "2" -> 2 [] c = "3" -> 3
          [] c = "4" -> 4 [] c = "5" -> 5 [] c = "6" -> 6 [] c = "7" -> 7
          [] c = "8" -> 8 [] c = "9" -> 9]

\* the class [-\d.]
NumChars == Digits \cup {"-", "."}

\* the class \s
WhiteSpace == {" ", "\n"}

UpperCase ==
    <<"A", "B", "C", "D", "E", "F", "G", "H", "I", "J", "K", "L", "M",
      "N", "O", "P", "Q", "R", "S", "T", "U", "V", "W", "X", "Y", "Z">>

LowerCase ==
    <<"a", "b", "c", "d", "e", "f", "g", "h", "i", "j", "k", "l", "m",
      "n", "o", "p", "q", "r", "s", "t", "u", "v", "w", "x", "y", "z">>

\* the class [A-Z]
Capitals == {UpperCase[i] : i \in DOMAIN UpperCase}

(***************************************************************************)
(* double                                                                  *)
(***************************************************************************)
RECURSIVE Normalise(_, _)
Normalise(m, e) ==
    IF e > 0 /\ m % 10 = 0 THEN Normalise(m \div 10, e - 1)
    ELSE [m |-> m, e |-> e]

RECURSIVE Pow10(_)
Pow10(n) == IF n = 0 THEN 1 ELSE 10 * Pow10(n - 1)

Dbl(m, e) == Normalise(m, e)

Zero == Dbl(0, 0)

\* d < n, d > n for an integer n
DblLess(d, n) == d.m < n * Pow10(d.e)
DblGreater(d, n) == d.m > n * Pow10(d.e)

(***************************************************************************)
(* std::stod on a captured string of the class [-\d.]: an optional sign,   *)
(* digits, an optional point, digits; the longest such prefix is           *)
(* converted, and std::invalid_argument is thrown when it has no digit.    *)
(***************************************************************************)
RECURSIVE DigitRunEnd(_, _)
\* index after the maximal run of digits of s that starts at i
DigitRunEnd(s, i) ==
    IF i <= Len(s) /\ s[i] \in Digits THEN DigitRunEnd(s, i + 1) ELSE i

RECURSIVE DigitsValue(_, _, _, _)
\* the value of the digits s[i..j-1] appended to the value acc
DigitsValue(s, i, j, acc) ==
    IF i >= j THEN acc
    ELSE DigitsValue(s, i + 1, j, 10 * acc + DigitValue[s[i]])

\* the conversion of the digits s[i0..i1-1] and the fraction s[f0..f1-1]
StodConvert(s, neg, i0, i1, f0, f1) ==
    IF (i1 - i0) + (f1 - f0) = 0
    THEN [ok |-> FALSE, val |-> Zero, what |-> "stod"]
    ELSE [ok |-> TRUE,
          val |-> Dbl((IF neg THEN -1 ELSE 1)
                        * DigitsValue(s, f0, f1, DigitsValue(s, i0, i1, 0)),
                      f1 - f0),
          what |-> ""]

\* the fraction after the digits s[i0..i1-1], if a point follows them
StodFraction(s, neg, i0, i1) ==
    IF i1 <= Len(s) /\ s[i1] = "."
    THEN StodConvert(s, neg, i0, i1, i1 + 1, DigitRunEnd(s, i1 + 1))
    ELSE StodConvert(s, neg, i0, i1, i1, i1)

\* the digits after the optional sign
StodDigits(s, neg, i0) == StodFraction(s, neg, i0, DigitRunEnd(s, i0))

stod(s) ==
    IF Len(s) >= 1 /\ s[1] = "-"
    THEN StodDigits(s, TRUE, 2)
    ELSE StodDigits(s, FALSE, 1)

(***************************************************************************)
(* The static patterns.  A status pattern is an alternation of literal     *)
(* phrases; a field pattern is a sequence of elements: a literal phrase,   *)
(* \s*, \s+, the group ([-\d.]+), the optional group ([-\d.]+)?, the       *)
(* group (\d+) or the group ([A-Z]\.\d+).                                   *)
(***************************************************************************)
Lit(tok) == [kind |-> "lit", tok |-> tok]
Ws0 == [kind |-> "ws0", tok |-> ""]
Ws1 == [kind |-> "ws1", tok |-> ""]
Num == [kind |-> "num", tok |-> ""]
Digits1 == [kind |-> "digits", tok |-> ""]
Revision == [kind |-> "revision", tok |-> ""]
OptNum == [kind |-> "optnum", tok |-> ""]

NORMAL_TERMINATION == {"Normal termination of Gaussian"}

SCF_ENERGY == <<Lit("SCF Done:"), Ws1, Lit("E(RHF)"), Ws0, Lit("="), Ws0, Num>>

ZPE == <<Lit("Zero-point correction="), Ws0, Num>>

THERMAL_CORRECTION == <<Lit("Thermal correction to Energy="), Ws0, Num>>

FREQUENCIES == <<Lit("Frequencies --"), Ws0, Num, Ws0, OptNum, Ws0, OptNum>>

ERROR_PATTERN ==
    {"Error termination", "Fatal Error", "Erroneous write", "File lengths",
     "Error in internal coordinate system"}

PCM_ERROR ==
    {"Convergence failure -- run terminated", "PCM cycles did not converge",
     "PCM optimization failed"}

(***************************************************************************)
(* std::regex matching                                                     *)
(***************************************************************************)
RECURSIVE SkipWs(_, _)
SkipWs(t, i) ==
    IF i <= Len(t) /\ t[i] \in WhiteSpace THEN SkipWs(t, i + 1) ELSE i

RECURSIVE NumRunEnd(_, _)
NumRunEnd(t, i) ==
    IF i <= Len(t) /\ t[i] \in NumChars THEN NumRunEnd(t, i + 1) ELSE i

NoMatch == [ok |-> FALSE, next |-> 0, caps |-> <<>>]

Unmatched == [matched |-> FALSE, str |-> <<>>]

RECURSIVE MatchElems(_, _, _, _, _)
\* match the elements pat[k..] at position i of t; caps are the groups so far
MatchElems(t, pat, k, i, caps) ==
    IF k > Len(pat) THEN [ok |-> TRUE, next |-> i, caps |-> caps]
    ELSE LET e == pat[k] IN
      CASE e.kind = "lit" ->
             IF i <= Len(t) /\ t[i] = e.tok
             THEN MatchElems(t, pat, k + 1, i + 1, caps) ELSE NoMatch
        [] e.kind = "ws0" -> MatchElems(t, pat, k + 1, SkipWs(t, i), caps)
        [] e.kind = "ws1" ->
             IF i <= Len(t) /\ t[i] \in WhiteSpace
             THEN MatchElems(t, pat, k + 1, SkipWs(t, i), caps) ELSE NoMatch
        [] e.kind = "num" ->
             LET j == NumRunEnd(t, i) IN
             IF j > i
             THEN MatchElems(t, pat, k + 1, j,
                     Append(caps, [matched |-> TRUE, str |-> SubSeq(t, i, j - 1)]))
             ELSE NoMatch
        [] e.kind = "optnum" ->
             LET j == NumRunEnd(t, i) IN
             IF j > i
             THEN MatchElems(t, pat, k + 1, j,
                     Append(caps, [matched |-> TRUE, str |-> SubSeq(t, i, j - 1)]))
             ELSE MatchElems(t, pat, k + 1, i, Append(caps, Unmatched))
        [] e.kind = "digits" ->
             LET j == DigitRunEnd(t, i) IN
             IF j > i
             THEN MatchElems(t, pat, k + 1, j,
                     Append(caps, [matched |-> TRUE, str |-> SubSeq(t, i, j - 1)]))
             ELSE NoMatch
        [] e.kind = "revision" ->
             LET j == DigitRunEnd(t, i + 2) IN
             IF i + 2 <= Len(t) /\ t[i] \in Capitals /\ t[i + 1] = "." /\ j > i + 2
             THEN MatchElems(t, pat, k + 1, j,
                     Append(caps, [matched |-> TRUE, str |-> SubSeq(t, i, j - 1)]))
             ELSE NoMatch

RECURSIVE SearchFrom(_, _, _)
\* the match m at position i, else the search from the next position
MatchOrSearch(t, pat, i, m) == IF m.ok THEN m ELSE SearchFrom(t, pat, i + 1)

\* std::regex_search from position i: the leftmost match
SearchFrom(t, pat, i) ==
    IF i > Len(t) THEN NoMatch
    ELSE MatchOrSearch(t, pat, i, MatchElems(t, pat, 1, i, <<>>))

RECURSIVE SearchBack(_, _, _)
MatchOrSearchBack(t, pat, i, m) == IF m.ok THEN m ELSE SearchBack(t, pat, i - 1)

SearchBack(t, pat, i) ==
    IF i < 1 THEN NoMatch
    ELSE MatchOrSearchBack(t, pat, i, MatchElems(t, pat, 1, i, <<>>))

\* a search that reports the rightmost match
regex_search_Last(t, pat) == SearchBack(t, pat, Len(t))

regex_search(t, pat) == SearchFrom(t, pat, 1)

\* std::regex_search with an alternation of literal phrases
regex_search_alt(t, alts) == \E i \in 1..Len(t) : t[i] \in alts

RECURSIVE sregex_iterator(_, _, _)
\* the match m followed by the matches after it
MatchAndRest(t, pat, m) ==
    IF m.ok THEN <<m>> \o sregex_iterator(t, pat, m.next) ELSE <<>>

\* the successive non-overlapping matches of pat in t from position i
sregex_iterator(t, pat, i) == MatchAndRest(t, pat, SearchFrom(t, pat, i))

(***************************************************************************)
(* core::EnergyComponents (cck_qm_program.h).  A std::optional is a        *)
(* sequence of length 0 or 1.                                              *)
(***************************************************************************)
\* the components as a member kept from the previous extraction instead of
\* a local created fresh in every call
EnergyComponents_Reused ==
    IF call.op = "extract_energies" /\ ~call.out.thrown
    THEN call.out.ret[1]
    ELSE [electronic_energy |-> Zero,
          zero_point_energy |-> Zero,
          thermal_correction |-> Zero,
          enthalpy_correction |-> Zero,
          gibbs_correction |-> Zero,
          entropy |-> Zero,
          nuclear_repulsion |-> Zero,
          frequencies |-> <<>>,
          has_imaginary_freq |-> FALSE,
          dispersion_correction |-> <<>>,
          solvation_energy |-> <<>>,
          counterpoise_correction |-> <<>>]

EnergyComponents ==
    [electronic_energy |-> Zero,
     zero_point_energy |-> Zero,
     thermal_correction |-> Zero,
     enthalpy_correction |-> Zero,
     gibbs_correction |-> Zero,
     entropy |-> Zero,
     nuclear_repulsion |-> Zero,
     frequencies |-> <<>>,
     has_imaginary_freq |-> FALSE,
     dispersion_correction |-> <<>>,
     solvation_energy |-> <<>>,
     counterpoise_correction |-> <<>>]

JobStatus == {"UNKNOWN", "COMPLETED", "ERROR", "RUNNING", "INTERRUPTED"}

(***************************************************************************)
(* The result of a call: `thrown` tells whether it left by an exception,   *)
(* `what` is the exception's message (its parts), `ret` the returned value *)
(* (absent when thrown), `reads` the files opened, in order.               *)
(***************************************************************************)
Return(v, reads) ==
    [thrown |-> FALSE, what |-> <<>>, ret |-> <<v>>, reads |-> reads]

Throw(what, reads) ==
    [thrown |-> TRUE, what |-> what, ret |-> <<>>, reads |-> reads]

(***************************************************************************)
(* GaussianProgram                                                         *)
(***************************************************************************)
\* parse_output_file that gives the empty text for a file it cannot open
parse_output_file_Empty(fs, filepath) ==
    IF fs[filepath] = NoFile
    THEN Return(<<>>, <<filepath>>)
    ELSE Return(fs[filepath], <<filepath>>)

parse_output_file(fs, filepath) ==
    IF fs[filepath] = NoFile
    THEN Throw(<<"Could not open file: ", filepath>>, <<filepath>>)
    ELSE Return(fs[filepath], <<filepath>>)

\* validate_results without the lower limit of the electronic energy
validate_results_NoLowerLimit(energies) ==
    IF DblGreater(energies.electronic_energy, 0)
    THEN FALSE
    ELSE IF DblLess(energies.zero_point_energy, 0)
    THEN FALSE
    ELSE TRUE

validate_results(energies) ==
    IF DblGreater(energies.electronic_energy, 0)
       \/ DblLess(energies.electronic_energy, -10000)
    THEN FALSE
    ELSE IF DblLess(energies.zero_point_energy, 0)
    THEN FALSE
    ELSE TRUE

\* the try block of extract_energy_value: r is what std::stod made of the
\* capture; its exception is caught and the default returned
ParsedOrDefault(r, default_value) ==
    IF r.ok THEN Return(r.val, <<>>) ELSE Return(default_value, <<>>)

\* extract_energy_value once the search is done
ParseMatch(match, default_value) ==
    IF match.ok
    THEN ParsedOrDefault(stod(match.caps[1].str), default_value)
    ELSE Return(default_value, <<>>)

\* extract_energy_value that reports a pattern without a match as an error
extract_energy_value_Required(content, pattern, default_value) ==
    IF regex_search(content, pattern).ok
    THEN ParseMatch(regex_search(content, pattern), default_value)
    ELSE Throw(<<"value not found">>, <<>>)

extract_energy_value(content, pattern, default_value) ==
    ParseMatch(regex_search(content, pattern), default_value)

RECURSIVE MatchedGroups(_, _)
\* the groups, in order, that the frequency loop visits: for each match
\* the groups 1..3 that took part in it
MatchedGroups(matches, k) ==
    IF k > Len(matches) THEN <<>>
    ELSE SelectSeq(matches[k].caps, LAMBDA c : c.matched)
         \o MatchedGroups(matches, k + 1)

RECURSIVE FrequencyLoop(_, _, _)
\* a body that sets the flag from the last frequency alone
FrequencyLoopBody_LastOnly(groups, k, components, r) ==
    IF ~r.ok THEN Throw(<<r.what>>, <<>>)
    ELSE FrequencyLoop(groups, k + 1,
           [components EXCEPT
              !.frequencies = Append(@, r.val),
              !.has_imaginary_freq = DblLess(r.val, 0)])

\* the body of the loop for group k: r is what std::stod made of it, and its
\* exception is not caught here
FrequencyLoopBody(groups, k, components, r) ==
    IF ~r.ok THEN Throw(<<r.what>>, <<>>)
    ELSE FrequencyLoop(groups, k + 1,
           [components EXCEPT
              !.frequencies = Append(@, r.val),
              !.has_imaginary_freq = @ \/ DblLess(r.val, 0)])

\* the loop over the matched groups of the matches of FREQUENCIES
FrequencyLoop(groups, k, components) ==
    IF k > Len(groups) THEN Return(components, <<>>)
    ELSE FrequencyLoopBody(groups, k, components, stod(groups[k].str))

\* the three scalar fields, set from the results of extract_energy_value
SetFields(scf, zpe, thermal) ==
    IF scf.thrown THEN scf
    ELSE IF zpe.thrown THEN zpe
    ELSE IF thermal.thrown THEN thermal
    ELSE Return([EnergyComponents EXCEPT
                   !.electronic_energy = scf.ret[1],
                   !.zero_point_energy = zpe.ret[1],
                   !.thermal_correction = thermal.ret[1]], <<>>)

\* the frequencies, added to the components c made so far
ExtractFrequencies(content, c) ==
    IF c.thrown THEN c
    ELSE FrequencyLoop(
           MatchedGroups(sregex_iterator(content, FREQUENCIES, 1), 1), 1, c.ret[1])

\* the validation that ends the try block
ValidateOrThrow(c) ==
    IF c.thrown THEN c
    ELSE IF ~validate_results(c.ret[1])
    THEN Throw(<<"Extracted energy components failed validation">>, <<>>)
    ELSE c

\* the try block of extract_energies, given the result of parse_output_file
TryExtract(file) ==
    IF file.thrown THEN file
    ELSE [ValidateOrThrow(
            ExtractFrequencies(file.ret[1],
              SetFields(extract_energy_value(file.ret[1], SCF_ENERGY, Zero),
                        extract_energy_value(file.ret[1], ZPE, Zero),
                        extract_energy_value(file.ret[1], THERMAL_CORRECTION, Zero))))
          EXCEPT !.reads = file.reads]

\* the catch clause of extract_energies: any exception is thrown again with
\* the path put before its message
CatchAndRethrow(filepath, r) ==
    IF r.thrown
    THEN Throw(<<"Failed to extract energies from ", filepath, ": ">> \o r.what,
               r.reads)
    ELSE r

extract_energies(fs, filepath) ==
    CatchAndRethrow(filepath, TryExtract(parse_output_file(fs, filepath)))

\* check_job_status with the error check ahead of the termination check
check_job_status_ErrorFirst(fs, filepath) ==
    LET file == parse_output_file(fs, filepath) IN
    IF file.thrown THEN Return("UNKNOWN", file.reads)
    ELSE LET content == file.ret[1] IN
      IF regex_search_alt(content, ERROR_PATTERN)
      THEN Return("ERROR", file.reads)
      ELSE IF regex_search_alt(content, NORMAL_TERMINATION)
      THEN Return("COMPLETED", file.reads)
      ELSE IF regex_search_alt(content, PCM_ERROR)
      THEN Return("ERROR", file.reads)
      ELSE Return("INTERRUPTED", file.reads)

\* check_job_status whose handler of a failed read falls into the last case
check_job_status_CatchInterrupted(fs, filepath) ==
    LET file == parse_output_file(fs, filepath)
        content == IF file.thrown THEN <<>> ELSE file.ret[1]
    IN
      IF regex_search_alt(content, NORMAL_TERMINATION)
      THEN Return("COMPLETED", file.reads)
      ELSE IF regex_search_alt(content, ERROR_PATTERN)
      THEN Return("ERROR", file.reads)
      ELSE IF regex_search_alt(content, PCM_ERROR)
      THEN Return("ERROR", file.reads)
      ELSE Return("INTERRUPTED", file.reads)

\* check_job_status without the check for PCM convergence issues
check_job_status_NoPcm(fs, filepath) ==
    LET file == parse_output_file(fs, filepath) IN
    IF file.thrown THEN Return("UNKNOWN", file.reads)
    ELSE LET content == file.ret[1] IN
      IF regex_search_alt(content, NORMAL_TERMINATION)
      THEN Return("COMPLETED", file.reads)
      ELSE IF regex_search_alt(content, ERROR_PATTERN)
      THEN Return("ERROR", file.reads)
      ELSE Return("INTERRUPTED", file.reads)

\* check_job_status that takes a file without a marker for a running job
check_job_status_Running(fs, filepath) ==
    LET file == parse_output_file(fs, filepath) IN
    IF file.thrown THEN Return("UNKNOWN", file.reads)
    ELSE LET content == file.ret[1] IN
      IF regex_search_alt(content, NORMAL_TERMINATION)
      THEN Return("COMPLETED", file.reads)
      ELSE IF regex_search_alt(content, ERROR_PATTERN)
      THEN Return("ERROR", file.reads)
      ELSE IF regex_search_alt(content, PCM_ERROR)
      THEN Return("ERROR", file.reads)
      ELSE Return("RUNNING", file.reads)

check_job_status(fs, filepath) ==
    LET file == parse_output_file(fs, filepath) IN
    IF file.thrown THEN Return("UNKNOWN", file.reads)
    ELSE LET content == file.ret[1] IN
      IF regex_search_alt(content, NORMAL_TERMINATION)
      THEN Return("COMPLETED", file.reads)
      ELSE IF regex_search_alt(content, ERROR_PATTERN)
      THEN Return("ERROR", file.reads)
      ELSE IF regex_search_alt(content, PCM_ERROR)
      THEN Return("ERROR", file.reads)
      ELSE Return("INTERRUPTED", file.reads)

\* calculate_high_level_energy that starts from the high-level components
CombineSwapped(low_level, high_level) ==
    IF low_level.thrown THEN low_level
    ELSE IF high_level.thrown
    THEN Throw(high_level.what, low_level.reads \o high_level.reads)
    ELSE Return([high_level.ret[1] EXCEPT
                   !.electronic_energy = low_level.ret[1].electronic_energy],
                low_level.reads \o high_level.reads)

calculate_high_level_energy_Swapped(fs, low_level_path, high_level_path) ==
    CombineSwapped(extract_energies(fs, low_level_path),
                   extract_energies(fs, high_level_path))

\* a combination that extracts the high-level file first
Combine_HighFirst(low_level, high_level) ==
    IF high_level.thrown THEN high_level
    ELSE IF low_level.thrown
    THEN Throw(low_level.what, high_level.reads \o low_level.reads)
    ELSE Return([low_level.ret[1] EXCEPT
                   !.electronic_energy = high_level.ret[1].electronic_energy],
                high_level.reads \o low_level.reads)

\* the combination of the two extractions; the high-level file is read only
\* when the low-level extraction returned
Combine(low_level, high_level) ==
    IF low_level.thrown THEN low_level
    ELSE IF high_level.thrown
    THEN Throw(high_level.what, low_level.reads \o high_level.reads)
    ELSE Return([low_level.ret[1] EXCEPT
                   !.electronic_energy = high_level.ret[1].electronic_energy],
                low_level.reads \o high_level.reads)

calculate_high_level_energy(fs, low_level_path, high_level_path) ==
    Combine(extract_energies(fs, low_level_path),
            extract_energies(fs, high_level_path))

(***************************************************************************)
(* Input texts: a file is a sequence of lines drawn from a set of lines.   *)
(***************************************************************************)
RECURSIVE Concat(_)
Concat(ls) == IF ls = <<>> THEN <<>> ELSE Head(ls) \o Concat(Tail(ls))

SeqsUpTo(S, n) == UNION {[1..k -> S] : k \in 0..n}

\* numerals as they appear after a field's label
N_m76_1 == <<"-", "7", "6", ".", "1">>
N_5 == <<"5">>
N_m20000 == <<"-", "2", "0", "0", "0", "0">>
N_0_1 == <<"0", ".", "1">>
N_m_1 == <<"-", ".", "1">>
N_20 == <<".", "2", "0">>
N_100_5 == <<"1", "0", "0", ".", "5">>
N_m50_2m == <<"-", "5", "0", ".", "2", "-">>
N_dash == <<"-">>
N_point == <<".">>

ScfLine(n) ==
    <<"SCF Done:", " ", " ", "E(RHF)", " ", "=", " ">> \o n \o <<" ", "A.U.", "\n">>

ZpeLine(n) == <<"Zero-point correction=", " ">> \o n \o <<"\n">>

ThermalLine(n) == <<"Thermal correction to Energy=">> \o n \o <<"\n">>

FreqLine(a, b) ==
    <<"Frequencies --", " ">> \o a \o <<" ", " ">> \o b \o <<"\n">>

MarkerLine(m) == <<" ", m, "\n">>

EnergyLines ==
    {ScfLine(n) : n \in {N_m76_1, N_5, N_m20000, N_point}}
    \cup {ZpeLine(n) : n \in {N_0_1, N_m_1}}
    \cup {ThermalLine(N_20)}
    \cup {FreqLine(N_m50_2m, N_100_5), FreqLine(N_100_5, N_dash),
          FreqLine(N_5, N_20)}

StatusLines ==
    {MarkerLine(m) : m \in NORMAL_TERMINATION \cup ERROR_PATTERN \cup PCM_ERROR}
    \cup {MarkerLine("Leave Link")}

\* the file systems whose files together hold at most MaxLines lines of Lines
FileSystems(Lines) ==
    {[p \in Paths |->
        IF p \in x[3] THEN NoFile
        ELSE IF p = "low.log" THEN Concat(SubSeq(x[1], 1, x[2]))
        ELSE Concat(SubSeq(x[1], x[2] + 1, Len(x[1])))] :
     x \in {y \in SeqsUpTo(Lines, MaxLines) \X (0..MaxLines) \X (SUBSET Paths) :
              y[2] <= Len(y[1])}}

\* the file systems with one file of at most MaxLines lines of Lines, or none
OneFile(Lines) ==
    {[p \in Paths |-> IF p = "low.log" THEN t ELSE NoFile] :
     t \in {NoFile} \cup {Concat(ls) : ls \in SeqsUpTo(Lines, MaxLines)}}

FieldPatterns == {"SCF_ENERGY", "ZPE", "THERMAL_CORRECTION"}

PatternOf(name) ==
    CASE name = "SCF_ENERGY" -> SCF_ENERGY
      [] name = "ZPE" -> ZPE
      [] name = "THERMAL_CORRECTION" -> THERMAL_CORRECTION

Defaults == {Dbl(-1, 0)}

(***************************************************************************)
(* State: the files on disk, the last call made on the backend with its    *)
(* result (`repeat` tells that extract_energies had been called on the     *)
(* same path before), and for each path the result of the first            *)
(* extract_energies made on it; the registry of program factories, the     *)
(* writes made to it so far, in order, the macros the build defines, and   *)
(* whether the registry has been looked up;                                *)
(* the threads that are in a call of the backend.                          *)
(***************************************************************************)
\* the registry before any registration
NoEntries == [n \in {} |-> ""]

NoRegistrations ==
    /\ program_registry = NoEntries
    /\ registered = <<>>
    /\ build = {}
    /\ looked_up = FALSE

registryVars == <<program_registry, registered, build, looked_up>>

\* the threads that call the backend, and a thread that is in no call: op
\* and path are the call it is in, pc its position in it, file and
\* status_file what its reads gave, out the result of the call
Workers == {"w1", "w2"}

Idle ==
    [op |-> "none", path |-> "", pc |-> "idle", file |-> <<>>,
     status_file |-> <<>>, out |-> <<>>]

NoCall ==
    [op |-> "none", path |-> "", path2 |-> "", pattern |-> "",
     default |-> Zero, repeat |-> FALSE,
     out |-> [thrown |-> FALSE, what |-> <<>>, ret |-> <<>>, reads |-> <<>>]]

Init ==
    /\ files \in OneFile(EnergyLines)
    /\ call = NoCall
    /\ extracted = [p \in Paths |-> <<>>]
    /\ NoRegistrations
    /\ workers = [w \in Workers |-> Idle]

InitCompose ==
    /\ files \in FileSystems(EnergyLines)
    /\ call = NoCall
    /\ extracted = [p \in Paths |-> <<>>]
    /\ NoRegistrations
    /\ workers = [w \in Workers |-> Idle]

InitStatus ==
    /\ files \in OneFile(StatusLines)
    /\ call = NoCall
    /\ extracted = [p \in Paths |-> <<>>]
    /\ NoRegistrations
    /\ workers = [w \in Workers |-> Idle]

ExtractEnergies(p) ==
    /\ call' = [NoCall EXCEPT !.op = "extract_energies", !.path = p,
                              !.repeat = (extracted[p] # <<>>),
                              !.out = extract_energies(files, p)]
    /\ extracted' = IF extracted[p] = <<>>
                    THEN [extracted EXCEPT ![p] = <<call'.out>>]
                    ELSE extracted
    /\ UNCHANGED <<workers, files, registryVars>>

CheckJobStatus(p) ==
    /\ call' = [NoCall EXCEPT !.op = "check_job_status", !.path = p,
                              !.out = check_job_status(files, p)]
    /\ UNCHANGED <<workers, files, extracted, registryVars>>

CalculateHighLevelEnergy(l, h) ==
    /\ call' = [NoCall EXCEPT !.op = "calculate_high_level_energy",
                              !.path = l, !.path2 = h,
                              !.out = calculate_high_level_energy(files, l, h)]
    /\ UNCHANGED <<workers, files, extracted, registryVars>>

ExtractEnergyValue(p, name, d) ==
    /\ files[p] # NoFile
    /\ call' = [NoCall EXCEPT !.op = "extract_energy_value", !.path = p,
                              !.pattern = name, !.default = d,
                              !.out = extract_energy_value(files[p], PatternOf(name), d)]
    /\ UNCHANGED <<workers, files, extracted, registryVars>>

Next ==
    \/ \E p \in Paths : ExtractEnergies(p)
    \/ \E p \in Paths : CheckJobStatus(p)
    \/ \E l \in Paths : \E h \in Paths \ {l} : CalculateHighLevelEnergy(l, h)
    \/ \E p \in Paths, name \in FieldPatterns, d \in Defaults :
          ExtractEnergyValue(p, name, d)

Spec == Init /\ [][Next]_vars

SpecStatus == InitStatus /\ [][Next]_vars

NextCompose ==
    \E l \in Paths : \E h \in Paths \ {l} : CalculateHighLevelEnergy(l, h)

SpecCompose == InitCompose /\ [][NextCompose]_vars

(***************************************************************************)
(* Properties of check_job_status (checked under SpecStatus)               *)
(***************************************************************************)
Readable(p) == files[p] # NoFile

Contains(t, phrases) == \E i \in DOMAIN t : t[i] \in phrases

StatusCall == call.op = "check_job_status"

StatusOf(c) == c.out.ret[1]

TerminationMarkers == {"Normal termination of Gaussian"}

ErrorMarkers ==
    {"Error termination", "Fatal Error", "Erroneous write", "File lengths",
     "Error in internal coordinate system"}

ConvergenceMarkers ==
    {"Convergence failure -- run terminated", "PCM cycles did not converge",
     "PCM optimization failed"}

\* C1: a readable file whose text contains the normal-termination marker is
\* classified COMPLETED, whatever error or convergence-failure markers the
\* same text contains.
C1_TerminationFirst ==
    (StatusCall /\ Readable(call.path)
       /\ Contains(files[call.path], TerminationMarkers))
    => (~call.out.thrown /\ StatusOf(call) = "COMPLETED")

C1_Witness ==
    /\ StatusCall /\ Readable(call.path)
    /\ Contains(files[call.path], TerminationMarkers)
    /\ Contains(files[call.path], ErrorMarkers \cup ConvergenceMarkers)
    /\ StatusOf(call) = "COMPLETED"

\* C2: a readable file (also an empty one) without any termination, error or
\* convergence-failure marker is classified INTERRUPTED and a file that
\* cannot be opened UNKNOWN; a readable file is never UNKNOWN and an
\* unreadable one never INTERRUPTED.
C2_InterruptedVersusUnknown ==
    StatusCall =>
      /\ ~call.out.thrown
      /\ ~Readable(call.path) => StatusOf(call) = "UNKNOWN"
      /\ Readable(call.path) => StatusOf(call) # "UNKNOWN"
      /\ (Readable(call.path)
            /\ ~Contains(files[call.path],
                  TerminationMarkers \cup ErrorMarkers \cup ConvergenceMarkers))
         => StatusOf(call) = "INTERRUPTED"

C2_Witness ==
    /\ StatusCall
    /\ files[call.path] = <<>>
    /\ StatusOf(call) = "INTERRUPTED"

\* C3: for a readable file without the termination marker the status is ERROR
\* exactly when the text contains one of the five error markers or, failing
\* that, a convergence-failure marker; no other file is classified ERROR.
C3_ErrorExactly ==
    StatusCall =>
      (StatusOf(call) = "ERROR"
         <=> /\ Readable(call.path)
             /\ ~Contains(files[call.path], TerminationMarkers)
             /\ \/ Contains(files[call.path], ErrorMarkers)
                \/ Contains(files[call.path], ConvergenceMarkers))

C3_Witness ==
    /\ StatusCall /\ Readable(call.path)
    /\ ~Contains(files[call.path], TerminationMarkers \cup ErrorMarkers)
    /\ Contains(files[call.path], ConvergenceMarkers)
    /\ StatusOf(call) = "ERROR"

\* C27: check_job_status is total: for a file it cannot read, an empty file
\* and every text it raises nothing and returns one status, which is
\* COMPLETED, ERROR, INTERRUPTED or UNKNOWN and never RUNNING.
C27_TotalNeverRunning ==
    StatusCall =>
      /\ ~call.out.thrown
      /\ call.out.what = <<>>
      /\ Len(call.out.ret) = 1
      /\ call.out.ret[1] \in {"COMPLETED", "ERROR", "INTERRUPTED", "UNKNOWN"}
      /\ call.out.ret[1] \in JobStatus \ {"RUNNING"}

C27_Witness ==
    /\ StatusCall
    /\ ~Readable(call.path)
    /\ call.out = Return("UNKNOWN", <<call.path>>)

(***************************************************************************)
(* Properties of extract_energies and extract_energy_value (under Spec)    *)
(***************************************************************************)
ExtractCall == call.op = "extract_energies"

Returned(c) == ~c.out.thrown /\ Len(c.out.ret) = 1

\* the message of the exception the call wrapped
Cause(c) == SubSeq(c.out.what, 4, Len(c.out.what))

ValidationFailure(c) ==
    c.out.thrown /\ Cause(c) = <<"Extracted energy components failed validation">>

Occurs(t, pat) == \E i \in 1..Len(t) : MatchElems(t, pat, 1, i, <<>>).ok

\* the capture of the leftmost occurrence of pat in t
FirstCapture(t, pat) ==
    LET i == CHOOSE k \in 1..Len(t) :
                /\ MatchElems(t, pat, 1, k, <<>>).ok
                /\ \A j \in 1..(k - 1) : ~MatchElems(t, pat, 1, j, <<>>).ok
    IN MatchElems(t, pat, 1, i, <<>>).caps[1].str

\* the value a field takes: the number of the first occurrence, else dflt
FieldValue(t, pat, dflt) ==
    IF Occurs(t, pat) /\ stod(FirstCapture(t, pat)).ok
    THEN stod(FirstCapture(t, pat)).val
    ELSE dflt

Plausible(e, z) ==
    /\ ~DblGreater(e, 0)
    /\ ~DblLess(e, -10000)
    /\ ~DblLess(z, 0)

C5_AbsentFieldsDefault ==
    (ExtractCall /\ Readable(call.path)) =>
      LET t == files[call.path] IN
      /\ Returned(call) =>
           LET c == call.out.ret[1] IN
           /\ ~Occurs(t, SCF_ENERGY) => c.electronic_energy = Zero
           /\ ~Occurs(t, ZPE) => c.zero_point_energy = Zero
           /\ ~Occurs(t, THERMAL_CORRECTION) => c.thermal_correction = Zero
           /\ ~Occurs(t, FREQUENCIES) =>
                (c.frequencies = <<>> /\ ~c.has_imaginary_freq)
      /\ call.out.thrown =>
           \/ Occurs(t, SCF_ENERGY)
                /\ ~Plausible(FieldValue(t, SCF_ENERGY, Zero), Zero)
           \/ Occurs(t, ZPE) /\ DblLess(FieldValue(t, ZPE, Zero), 0)
           \/ Occurs(t, FREQUENCIES)
      /\ (Occurs(t, SCF_ENERGY) /\ ~Occurs(t, ZPE)
            /\ ~Occurs(t, THERMAL_CORRECTION) /\ ~Occurs(t, FREQUENCIES)
            /\ Plausible(FieldValue(t, SCF_ENERGY, Zero), Zero))
         => /\ Returned(call)
            /\ call.out.ret[1].electronic_energy = FieldValue(t, SCF_ENERGY, Zero)
            /\ call.out.ret[1].zero_point_energy = Zero
            /\ call.out.ret[1].thermal_correction = Zero

C5_Witness ==
    /\ ExtractCall
    /\ files[call.path] = ScfLine(N_m76_1)
    /\ Returned(call)
    /\ call.out.ret[1].electronic_energy = Dbl(-761, 1)
    /\ call.out.ret[1].zero_point_energy = Zero
    /\ call.out.ret[1].thermal_correction = Zero
    /\ call.out.ret[1].frequencies = <<>>

\* C6: extract_energies never fails because the text captured for a field
\* is no number: the extraction of a readable file fails for no other reason
\* than the validation of its result.
C6_ParseFailureNotPropagated ==
    (ExtractCall /\ Readable(call.path) /\ call.out.thrown)
      => ValidationFailure(call)

\* C7: extract_energy_value returns the number parsed from the capture of
\* the first match of the pattern, returns the default when there is no
\* match or the capture is no number, and never raises.
C7_FirstMatchOrDefault ==
    call.op = "extract_energy_value" =>
      /\ Returned(call)
      /\ call.out.ret[1] =
           FieldValue(files[call.path], PatternOf(call.pattern), call.default)

C7_Witness ==
    /\ call.op = "extract_energy_value"
    /\ call.pattern = "SCF_ENERGY"
    /\ files[call.path] = ScfLine(N_m76_1) \o ScfLine(N_5)
    /\ call.out.ret[1] = Dbl(-761, 1)

\* C8: extract_energies of a file that cannot be opened fails, returns no
\* EnergyComponents, and has tried to open the file exactly once.
C8_UnreadableFails ==
    (ExtractCall /\ ~Readable(call.path)) =>
      /\ call.out.thrown
      /\ call.out.ret = <<>>
      /\ call.out.reads = <<call.path>>

C8_Witness ==
    /\ ExtractCall /\ ~Readable(call.path)
    /\ call.out.thrown
    /\ Cause(call) = <<"Could not open file: ", call.path>>

ComposedOf(c, low, high) ==
    (~low.thrown /\ ~high.thrown) =>
      /\ Returned(c)
      /\ c.out.ret[1].electronic_energy = high.ret[1].electronic_energy
      /\ c.out.ret[1].zero_point_energy = low.ret[1].zero_point_energy
      /\ c.out.ret[1].thermal_correction = low.ret[1].thermal_correction
      /\ c.out.ret[1].enthalpy_correction = low.ret[1].enthalpy_correction
      /\ c.out.ret[1].gibbs_correction = low.ret[1].gibbs_correction
      /\ c.out.ret[1].entropy = low.ret[1].entropy
      /\ c.out.ret[1].nuclear_repulsion = low.ret[1].nuclear_repulsion
      /\ c.out.ret[1].frequencies = low.ret[1].frequencies
      /\ c.out.ret[1].has_imaginary_freq = low.ret[1].has_imaginary_freq
      /\ c.out.ret[1].dispersion_correction = low.ret[1].dispersion_correction
      /\ c.out.ret[1].solvation_energy = low.ret[1].solvation_energy
      /\ c.out.ret[1].counterpoise_correction = low.ret[1].counterpoise_correction

\* C10: when the extractions of L and H both succeed, the result of
\* calculate_high_level_energy(L, H) has the electronic energy of H's
\* extraction and every other field of L's extraction.
C10_Composition ==
    call.op = "calculate_high_level_energy" =>
      ComposedOf(call, extract_energies(files, call.path),
                       extract_energies(files, call.path2))

C10_Witness ==
    /\ call.op = "calculate_high_level_energy"
    /\ files[call.path] = FreqLine(N_m50_2m, N_100_5)
    /\ files[call.path2] = ScfLine(N_m76_1)
    /\ Returned(call)
    /\ call.out.ret[1].electronic_energy = Dbl(-761, 1)
    /\ call.out.ret[1].frequencies = <<Dbl(-502, 1), Dbl(1005, 1)>>
    /\ call.out.ret[1].has_imaginary_freq

\* what calculate_high_level_energy(L, H) did, given the outcomes low and
\* high of extract_energies(L) and extract_energies(H) made alone
FailsWith(c, low, high) ==
    /\ c.out.thrown <=> (low.thrown \/ high.thrown)
    /\ low.thrown => /\ c.out.what = low.what
                     /\ c.out.reads = low.reads
                     /\ \A i \in DOMAIN c.out.reads : c.out.reads[i] # c.path2
    /\ (~low.thrown /\ high.thrown)
          => /\ c.out.what = high.what
             /\ c.out.reads = low.reads \o high.reads
    /\ (~low.thrown /\ ~high.thrown)
          => /\ Returned(c)
             /\ c.out.reads = low.reads \o high.reads

\* C25: calculate_high_level_energy(L, H) fails exactly when
\* extract_energies(L) or extract_energies(H) fails, with the failure of that
\* extraction as it is; L is extracted before H, so that when L fails the
\* failure is L's and H is never read; when both succeed it returns.
C25_NoValidationOfItsOwn ==
    call.op = "calculate_high_level_energy" =>
      FailsWith(call, extract_energies(files, call.path),
                      extract_energies(files, call.path2))

C25_Witness ==
    /\ call.op = "calculate_high_level_energy"
    /\ extract_energies(files, call.path).thrown
    /\ extract_energies(files, call.path2).thrown
    /\ files[call.path] # NoFile
    /\ files[call.path2] # NoFile
    /\ call.out = extract_energies(files, call.path)
    /\ call.out.reads = <<call.path>>

(***************************************************************************)
(* The registry of program factories (core/cck_qm_program.cpp).  A program *)
(* name is a sequence of characters; a factory is named by what it makes.  *)
(***************************************************************************)
MaxRegistrations == 2

\* std::tolower in the "C" locale
tolower(c) ==
    IF \E i \in DOMAIN UpperCase : UpperCase[i] = c
    THEN LowerCase[CHOOSE i \in DOMAIN UpperCase : UpperCase[i] = c]
    ELSE c

\* a normalisation that keeps the spelling
normalize_program_name_Identity(name) == name

normalize_program_name(name) == [i \in 1..Len(name) |-> tolower(name[i])]

\* the macros that select the programs built in
Macros ==
    {"CCK_WITH_GAUSSIAN", "CCK_WITH_ORCA", "CCK_WITH_NWCHEM", "CCK_WITH_QCHEM"}

Builds ==
    {{}, {"CCK_WITH_GAUSSIAN"}, {"CCK_WITH_GAUSSIAN", "CCK_WITH_ORCA"}, Macros}

\* the factories a caller registers
Factories == {"f", "g"}

\* what the placeholder factories throw
NotYetImplemented ==
    [orca_placeholder |-> "ORCA support is not yet implemented",
     nwchem_placeholder |-> "NWChem support is not yet implemented",
     qchem_placeholder |-> "Q-Chem support is not yet implemented"]

\* it->second(): the call of a factory
Invoke(factory) ==
    IF factory \in DOMAIN NotYetImplemented
    THEN Throw(<<NotYetImplemented[factory]>>, <<>>)
    ELSE Return([made_by |-> factory], <<>>)

\* a lookup whose error names the normalised name
create_qm_program_Normalized(registry, program_name) ==
    IF normalize_program_name(program_name) \notin DOMAIN registry
    THEN Throw(<<"Unsupported quantum chemistry program: ",
                 normalize_program_name(program_name)>>, <<>>)
    ELSE Invoke(registry[normalize_program_name(program_name)])

create_qm_program(registry, program_name) ==
    IF normalize_program_name(program_name) \notin DOMAIN registry
    THEN Throw(<<"Unsupported quantum chemistry program: ", program_name>>, <<>>)
    ELSE Invoke(registry[normalize_program_name(program_name)])

is_program_supported(registry, program_name) ==
    normalize_program_name(program_name) \in DOMAIN registry

RECURSIVE Orderings(_)
\* the sequences that hold every element of S once
Orderings(S) ==
    IF S = {} THEN {<<>>}
    ELSE UNION {{<<x>> \o rest : rest \in Orderings(S \ {x})} : x \in S}

\* a list created with size() empty strings instead of reserved
get_supported_programs_Sized(registry) ==
    {[k \in DOMAIN keys |-> <<>>] \o keys : keys \in Orderings(DOMAIN registry)}

\* the lists get_supported_programs may return: the keys of the registry in
\* the order in which the std::unordered_map iterates, which is unspecified
get_supported_programs(registry) == Orderings(DOMAIN registry)

\* program_registry[key] = factory
Assign(registry, key, factory) ==
    [n \in DOMAIN registry \cup {key} |-> IF n = key THEN factory ELSE registry[n]]

\* a registration that replaces the registry by the one entry
register_qm_program_Only(registry, name, factory) ==
    Assign(NoEntries, normalize_program_name(name), factory)

\* a registration that keeps the factory a name already has
register_qm_program_KeepFirst(registry, name, factory) ==
    IF normalize_program_name(name) \in DOMAIN registry THEN registry
    ELSE Assign(registry, normalize_program_name(name), factory)

register_qm_program(registry, name, factory) ==
    Assign(registry, normalize_program_name(name), factory)

\* the writes of register_qm_programs, in order, each under its macro
BuiltIn ==
    <<[macro |-> "CCK_WITH_GAUSSIAN", name |-> <<"g", "a", "u", "s", "s", "i", "a", "n">>,
       factory |-> "GaussianProgram"],
      [macro |-> "CCK_WITH_ORCA", name |-> <<"o", "r", "c", "a">>,
       factory |-> "orca_placeholder"],
      [macro |-> "CCK_WITH_NWCHEM", name |-> <<"n", "w", "c", "h", "e", "m">>,
       factory |-> "nwchem_placeholder"],
      [macro |-> "CCK_WITH_QCHEM", name |-> <<"q", "c", "h", "e", "m">>,
       factory |-> "qchem_placeholder"]>>

RECURSIVE AssignAll(_, _, _)
AssignAll(registry, writes, k) ==
    IF k > Len(writes) THEN registry
    ELSE AssignAll(Assign(registry, writes[k].name, writes[k].factory), writes, k + 1)

Compiled(defined) == SelectSeq(BuiltIn, LAMBDA b : b.macro \in defined)

register_qm_programs(registry, defined) == AssignAll(registry, Compiled(defined), 1)

\* the names registered and the names looked up
RegisteredNames ==
    {<<"F", "o", "o">>, <<"F", "O", "O">>, <<"O", "r", "c", "a">>}

ProgramNames ==
    RegisteredNames
    \cup {<<"f", "o", "o">>, <<"f", "O", "o">>, <<"o", "r", "c", "a">>,
          <<"G", "a", "u", "s", "s", "i", "a", "n">>,
          <<"k", "l", "i", "n", "g", "o", "n", "-", "c", "h", "e", "m">>}

\* the return of a function of type void
Done == [thrown |-> FALSE, what |-> <<>>, ret |-> <<>>, reads |-> <<>>]

RegistryCall(op, name, factory, out) ==
    [op |-> op, name |-> name, factory |-> factory, out |-> out]

InitRegistry ==
    /\ files = [p \in Paths |-> NoFile]
    /\ call = NoCall
    /\ extracted = [p \in Paths |-> <<>>]
    /\ program_registry = NoEntries
    /\ registered = <<>>
    /\ build \in Builds
    /\ looked_up = FALSE
    /\ workers = [w \in Workers |-> Idle]

RegisterQmProgram(name, factory) ==
    /\ Len(registered) < MaxRegistrations
    /\ program_registry' = register_qm_program(program_registry, name, factory)
    /\ registered' = Append(registered, [name |-> name, factory |-> factory])
    /\ call' = RegistryCall("register_qm_program", name, factory, Done)
    /\ UNCHANGED <<workers, files, extracted, build, looked_up>>

RegisterQmPrograms ==
    /\ Len(registered) < MaxRegistrations
    /\ program_registry' = register_qm_programs(program_registry, build)
    /\ registered' =
          registered \o [k \in DOMAIN Compiled(build) |->
                            [name |-> Compiled(build)[k].name,
                             factory |-> Compiled(build)[k].factory]]
    /\ call' = RegistryCall("register_qm_programs", <<>>, "", Done)
    /\ UNCHANGED <<workers, files, extracted, build, looked_up>>

CreateQmProgram(name) ==
    /\ call' = RegistryCall("create_qm_program", name, "",
                            create_qm_program(program_registry, name))
    /\ looked_up' = TRUE
    /\ UNCHANGED <<workers, files, extracted, program_registry, registered, build>>

IsProgramSupported(name) ==
    /\ call' = RegistryCall("is_program_supported", name, "",
                            Return(is_program_supported(program_registry, name), <<>>))
    /\ looked_up' = TRUE
    /\ UNCHANGED <<workers, files, extracted, program_registry, registered, build>>

GetSupportedPrograms ==
    /\ \E supported \in get_supported_programs(program_registry) :
          call' = RegistryCall("get_supported_programs", <<>>, "",
                               Return(supported, <<>>))
    /\ looked_up' = TRUE
    /\ UNCHANGED <<workers, files, extracted, program_registry, registered, build>>

NextRegistry ==
    \/ \E name \in RegisteredNames, factory \in Factories :
          RegisterQmProgram(name, factory)
    \/ RegisterQmPrograms
    \/ \E name \in ProgramNames : CreateQmProgram(name)
    \/ \E name \in ProgramNames : IsProgramSupported(name)
    \/ GetSupportedPrograms

SpecRegistry == InitRegistry /\ [][NextRegistry]_vars

(***************************************************************************)
(* Properties of the registry (checked under SpecRegistry)                 *)
(***************************************************************************)
\* x and y are the two cases of one letter
CasePair(x, y) ==
    \E k \in DOMAIN UpperCase : {x, y} = {UpperCase[k], LowerCase[k]}

SameIgnoringCase(a, b) ==
    /\ Len(a) = Len(b)
    /\ \A i \in DOMAIN a : a[i] = b[i] \/ CasePair(a[i], b[i])

\* the registrations made so far under a case variant of name
Matching(name) ==
    {i \in DOMAIN registered : SameIgnoringCase(registered[i].name, name)}

Latest(name) == CHOOSE i \in Matching(name) : \A j \in Matching(name) : j <= i

CreateCall == call.op = "create_qm_program"

SupportedCall == call.op = "is_program_supported"

\* C11: once a name has been registered with factories of the caller,
\* create_qm_program of every case variant of the name succeeds and returns
\* what one of the factories registered under these variants makes (the
\* factory f when f is the only one), and is_program_supported of every
\* case variant of a registered name is true.
C11_CaseInsensitiveLookup ==
    /\ (SupportedCall /\ Matching(call.name) # {}) => call.out = Return(TRUE, <<>>)
    /\ ( /\ CreateCall
         /\ Matching(call.name) # {}
         /\ \A i \in Matching(call.name) : registered[i].factory \in Factories )
       => /\ ~call.out.thrown
          /\ \E i \in Matching(call.name) :
                call.out.ret = <<[made_by |-> registered[i].factory]>>

C11_Witness ==
    /\ registered = <<[name |-> <<"F", "o", "o">>, factory |-> "f"]>>
    /\ CreateCall
    /\ call.name = <<"f", "O", "o">>
    /\ call.out = Return([made_by |-> "f"], <<>>)

\* C12: create_qm_program(name) calls the factory of the latest registration
\* made under a case variant of name; the registry holds one entry for each
\* set of names equal but for case; register_qm_program does not fail.
C12_LastWriteWins ==
    /\ (CreateCall /\ Matching(call.name) # {})
       => call.out = Invoke(registered[Latest(call.name)].factory)
    /\ Cardinality(DOMAIN program_registry)
         = Cardinality({Latest(registered[i].name) : i \in DOMAIN registered})
    /\ call.op = "register_qm_program" => ~call.out.thrown

C12_Witness ==
    /\ registered = <<[name |-> <<"F", "o", "o">>, factory |-> "f"],
                      [name |-> <<"F", "O", "O">>, factory |-> "g"]>>
    /\ Cardinality(DOMAIN program_registry) = 1
    /\ CreateCall
    /\ call.name = <<"f", "o", "o">>
    /\ call.out = Return([made_by |-> "g"], <<>>)

\* C13: create_qm_program of a name registered under no case variant fails
\* with the unsupported-program error, whose message ends with the name as
\* the caller spelt it, and the registry holds no entry but those registered.
C13_UnsupportedProgram ==
    /\ (CreateCall /\ Matching(call.name) = {})
       => /\ call.out.thrown
          /\ call.out.ret = <<>>
          /\ call.out.what = <<"Unsupported quantum chemistry program: ", call.name>>
    /\ \A key \in DOMAIN program_registry : Matching(key) # {}

C13_Witness ==
    /\ registered = <<>>
    /\ program_registry = NoEntries
    /\ CreateCall
    /\ call.name = <<"G", "a", "u", "s", "s", "i", "a", "n">>
    /\ call.out.thrown
    /\ call.out.what = <<"Unsupported quantum chemistry program: ", call.name>>

\* C14: create_qm_program(name) returns an instance exactly when
\* is_program_supported(name) is true in the same state of the registry.
C14_SupportedIffCreated ==
    CreateCall =>
        ((~call.out.thrown /\ call.out.ret # <<>>)
            <=> is_program_supported(program_registry, call.name))

\* the calls that look the registry up
Lookups == {"create_qm_program", "is_program_supported", "get_supported_programs"}

\* C22: registry entries are never removed: over every step of register,
\* register-all, create, is-supported and list calls, a name that
\* is_program_supported accepted before the step is accepted after it, and
\* a create, is-supported or list call leaves the registry as it was.
C22_EntriesNeverRemoved ==
    [][ /\ \/ program_registry' = program_registry
           \/ \A name \in ProgramNames :
                 is_program_supported(program_registry, name)
                     => is_program_supported(program_registry', name)
        /\ (call'.op \in Lookups) => (program_registry' = program_registry) ]_vars

C22_Witness ==
    /\ Len(registered) = 2
    /\ call.op = "register_qm_program"
    /\ ~SameIgnoringCase(registered[1].name, registered[2].name)
    /\ looked_up
    /\ is_program_supported(program_registry, registered[1].name)
    /\ is_program_supported(program_registry, registered[2].name)

\* C24: the registry is populated first and read-only afterwards: once a
\* create, is-supported or list call has been made, no later step changes
\* the contents of the registry.
C24_ReadOnlyAfterFirstLookup ==
    [][looked_up => (program_registry' = program_registry)]_vars

ListCall == call.op = "get_supported_programs"

\* the list a get_supported_programs call returned
Listed == call.out.ret[1]

NoCapitals(name) == \A i \in DOMAIN name : name[i] \notin Capitals

\* C28: the list get_supported_programs returns holds lower-case names only,
\* one for every name registered so far under any spelling and none else,
\* each once: after register("Foo", f) and register("FOO", g) it is the list
\* of "foo" alone, and after register_qm_programs was called twice it is a
\* list of the names of the build, each once, as after one call.
C28_ListOfNormalizedKeys ==
    ListCall =>
        /\ ~call.out.thrown
        /\ Len(call.out.ret) = 1
        /\ \A i \in DOMAIN Listed :
              /\ NoCapitals(Listed[i])
              /\ Matching(Listed[i]) # {}
              /\ \A j \in DOMAIN Listed : Listed[j] = Listed[i] => j = i
        /\ \A k \in DOMAIN registered :
              \E i \in DOMAIN Listed : SameIgnoringCase(Listed[i], registered[k].name)
        /\ (registered = <<[name |-> <<"F", "o", "o">>, factory |-> "f"],
                           [name |-> <<"F", "O", "O">>, factory |-> "g"]>>)
              => Listed = << <<"f", "o", "o">> >>
        /\ (registered = Compiled(build) \o Compiled(build))
              => Listed \in get_supported_programs(register_qm_programs(NoEntries, build))

C28_Witness ==
    /\ ListCall
    /\ registered = <<[name |-> <<"F", "o", "o">>, factory |-> "f"],
                      [name |-> <<"F", "O", "O">>, factory |-> "g"]>>
    /\ call.out = Return(<< <<"f", "o", "o">> >>, <<>>)

(***************************************************************************)
(* GaussianProgram::get_metadata and parse_route_section                   *)
(***************************************************************************)
\* core::CalculationMetadata as default-constructed (cck_qm_program.h)
CalculationMetadata ==
    [program_version |-> <<>>, method |-> "", basis_set |-> "",
     keywords |-> <<>>, solvent |-> <<>>,
     temperature |-> Dbl(29815, 2), pressure |-> Dbl(1, 0),
     file_path |-> "", status |-> "UNKNOWN"]

version_regex ==
    <<Lit("Gaussian"), Ws1, Digits1, Ws1, Lit("Revision"), Ws1, Revision>>

method_regex == {"B3LYP", "M06", "PBE0", "CAM-B3LYP", "wB97XD", "MP2", "CCSD", "G4"}

basis_regex ==
    {"6-31G", "6-311G", "cc-pVDZ", "cc-pVTZ", "aug-cc-pVDZ", "aug-cc-pVTZ",
     "def2-SVP", "def2-TZVP"}

\* the position of the first symbol of t at or after i that is in S, else 0
RECURSIVE FindFirst(_, _, _)
FindFirst(t, S, i) ==
    IF i > Len(t) THEN 0
    ELSE IF t[i] \in S THEN i ELSE FindFirst(t, S, i + 1)

\* the end of the line that holds position i
LineEnd(t, i) ==
    IF FindFirst(t, {"\n"}, i) = 0 THEN Len(t) ELSE FindFirst(t, {"\n"}, i) - 1

\* the match of route_regex: from the first "#" to the end of its line
RouteSection(content) ==
    IF FindFirst(content, {"#"}, 1) = 0 THEN <<>>
    ELSE SubSeq(content, FindFirst(content, {"#"}, 1),
                LineEnd(content, FindFirst(content, {"#"}, 1)))

\* the first group of the leftmost match of an alternation of names
FirstOf(route_section, names) ==
    IF FindFirst(route_section, names, 1) = 0 THEN <<>>
    ELSE <<route_section[FindFirst(route_section, names, 1)]>>

\* the map route_info: its keys are the fields that have a value
parse_route_section(content) ==
    [method |-> FirstOf(RouteSection(content), method_regex),
     basis |-> FirstOf(RouteSection(content), basis_regex)]

VersionString(m) ==
    IF m.ok THEN <<"Gaussian", " ">> \o m.caps[1].str \o <<" ">> \o m.caps[2].str
    ELSE <<>>

FillMetadata(metadata, version_match, route_info, status) ==
    [metadata EXCEPT
       !.program_version = VersionString(version_match),
       !.method = IF route_info.method # <<>> THEN route_info.method[1] ELSE @,
       !.basis_set = IF route_info.basis # <<>> THEN route_info.basis[1] ELSE @,
       !.status = status.ret[1]]

MetadataOf(fs, filepath, metadata, file, status) ==
    IF file.thrown
    THEN Return([metadata EXCEPT !.status = "ERROR"], file.reads)
    ELSE Return(FillMetadata(metadata, regex_search(file.ret[1], version_regex),
                             parse_route_section(file.ret[1]), status),
                file.reads \o status.reads)

\* get_metadata without the try block
get_metadata_Propagates(fs, filepath) ==
    IF fs[filepath] = NoFile THEN parse_output_file(fs, filepath)
    ELSE MetadataOf(fs, filepath, [CalculationMetadata EXCEPT !.file_path = filepath],
                    parse_output_file(fs, filepath), check_job_status(fs, filepath))

\* get_metadata that reports a file without a version line as an error
get_metadata_VersionRequired(fs, filepath) ==
    IF fs[filepath] # NoFile /\ ~regex_search(fs[filepath], version_regex).ok
    THEN Return([CalculationMetadata EXCEPT !.file_path = filepath,
                                            !.status = "ERROR"], <<filepath>>)
    ELSE MetadataOf(fs, filepath, [CalculationMetadata EXCEPT !.file_path = filepath],
                    parse_output_file(fs, filepath), check_job_status(fs, filepath))

get_metadata(fs, filepath) ==
    MetadataOf(fs, filepath, [CalculationMetadata EXCEPT !.file_path = filepath],
               parse_output_file(fs, filepath), check_job_status(fs, filepath))

VersionLine ==
    <<" ", "Gaussian", " ", "1", "6", " ", "Revision", " ", "C", ".", "0", "1", "\n">>

RouteLine(method, basis) == <<" ", "#", "p", " ", method, "/", basis, "\n">>

MetadataLines ==
    {VersionLine, <<" ", "Gaussian", " ", "1", "6", "\n">>, <<" ", "B3LYP", "\n">>}
    \cup {RouteLine("B3LYP", "6-31G"), RouteLine("HF", "STO-3G"),
          RouteLine("CAM-B3LYP", "aug-cc-pVDZ"),
          \* "#p M062X/def2-TZVPP": the names M06 and def2-TZVP stand in it
          <<" ", "#", "p", " ", "M06", "2", "X", "/", "def2-TZVP", "P", "\n">>}
    \cup {MarkerLine(m) : m \in {"Normal termination of Gaussian",
                                 "Error termination", "PCM cycles did not converge"}}

InitMetadata ==
    /\ files \in OneFile(MetadataLines)
    /\ call = NoCall
    /\ extracted = [p \in Paths |-> <<>>]
    /\ NoRegistrations
    /\ workers = [w \in Workers |-> Idle]

GetMetadata(p) ==
    /\ call' = [NoCall EXCEPT !.op = "get_metadata", !.path = p,
                              !.out = get_metadata(files, p)]
    /\ UNCHANGED <<workers, files, extracted, registryVars>>

NextMetadata == \E p \in Paths : GetMetadata(p)

SpecMetadata == InitMetadata /\ [][NextMetadata]_vars

(***************************************************************************)
(* Properties of get_metadata (checked under SpecMetadata)                 *)
(***************************************************************************)
MetadataCall == call.op = "get_metadata"

Metadata == call.out.ret[1]

\* C15: get_metadata never throws and always sets file_path; for a file it
\* cannot read the record is the default one but for file_path and status
\* ERROR; for a file it can read, temperature is 298.15 and pressure 1.0,
\* and a field (version, method, basis set) is empty when the text holds
\* nothing recognisable for it.
C15_MetadataNeverFails ==
    MetadataCall =>
        /\ ~call.out.thrown
        /\ Len(call.out.ret) = 1
        /\ Metadata.file_path = call.path
        /\ ~Readable(call.path) =>
              Metadata = [CalculationMetadata EXCEPT !.file_path = call.path,
                                                     !.status = "ERROR"]
        /\ Readable(call.path) =>
              /\ Metadata.temperature = Dbl(29815, 2)
              /\ Metadata.pressure = Dbl(1, 0)
              /\ ~Contains(files[call.path], {"Revision"})
                    => Metadata.program_version = <<>>
              /\ ~Contains(files[call.path], method_regex) => Metadata.method = ""
              /\ ~Contains(files[call.path], basis_regex) => Metadata.basis_set = ""

C15_Witness ==
    /\ MetadataCall
    /\ files[call.path] = RouteLine("HF", "STO-3G")
    /\ Metadata.file_path = call.path
    /\ Metadata.program_version = <<>>
    /\ Metadata.method = ""
    /\ Metadata.basis_set = ""
    /\ Metadata.temperature = Dbl(29815, 2)

\* C16 as claimed: for every file that can be read, the status of the
\* metadata is not ERROR.
C16_ErrorOnlyOnReadFailure ==
    (MetadataCall /\ Readable(call.path)) => Metadata.status # "ERROR"

\* C16 as amended: for every file that can be read and that holds the
\* normal-termination marker or holds no error and no PCM-convergence
\* marker, the status of the metadata is not ERROR.
C16_ErrorOnlyOnReadFailureOrErrorMarker ==
    ( /\ MetadataCall
      /\ Readable(call.path)
      /\ \/ Contains(files[call.path], TerminationMarkers)
         \/ ~Contains(files[call.path], ErrorMarkers \cup ConvergenceMarkers) )
    => Metadata.status # "ERROR"

C16_Witness ==
    /\ MetadataCall
    /\ files[call.path] = VersionLine
    /\ Metadata.status = "INTERRUPTED"
    /\ Metadata.program_version # <<>>

MethodVocabulary ==
    {"B3LYP", "M06", "PBE0", "CAM-B3LYP", "wB97XD", "MP2", "CCSD", "G4"}

BasisVocabulary ==
    {"6-31G", "6-311G", "cc-pVDZ", "cc-pVTZ", "aug-cc-pVDZ", "aug-cc-pVTZ",
     "def2-SVP", "def2-TZVP"}

\* the word of the route line that starts at from and ends before a stop
RouteWord(route, from, stops) ==
    SubSeq(route, from,
           IF FindFirst(route, stops, from) = 0 THEN Len(route)
           ELSE FindFirst(route, stops, from) - 1)

\* the method the route line names: the word after "#p", up to the "/"
NamedMethod(route) ==
    IF FindFirst(route, {" "}, 1) = 0 THEN <<>>
    ELSE RouteWord(route, FindFirst(route, {" "}, 1) + 1, {"/", " "})

\* the basis set the route line names: the word after the "/"
NamedBasis(route) ==
    IF FindFirst(route, {"/"}, 1) = 0 THEN <<>>
    ELSE RouteWord(route, FindFirst(route, {"/"}, 1) + 1, {" "})

Unrecognized(word, vocabulary) == word # <<>> /\ \A v \in vocabulary : word # <<v>>

\* C23: in the metadata get_metadata returns for a readable file, method is
\* empty or one name of the method vocabulary and basis_set is empty or one
\* name of the basis vocabulary; when the route line names a method (a basis
\* set) that is not in the vocabulary the field is empty, and the status is
\* the one check_job_status gives the file.
C23_ControlledVocabulary ==
    (MetadataCall /\ files[call.path] # NoFile) =>
        /\ ~call.out.thrown
        /\ Metadata.method \in {""} \cup MethodVocabulary
        /\ Metadata.basis_set \in {""} \cup BasisVocabulary
        /\ Unrecognized(NamedMethod(RouteSection(files[call.path])), MethodVocabulary)
              => Metadata.method = ""
        /\ Unrecognized(NamedBasis(RouteSection(files[call.path])), BasisVocabulary)
              => Metadata.basis_set = ""
        /\ Metadata.status = check_job_status(files, call.path).ret[1]

(***************************************************************************)
(* GaussianProgram::is_valid_output_file                                   *)
(***************************************************************************)
\* the number of lines examined
HeaderLines == 50

MaxPadding == 51

\* the symbols of a text within which a searched word occurs
Within(word) ==
    IF word = "Gaussian" THEN {"Gaussian", "Normal termination of Gaussian"}
    ELSE {word}

\* line.find(word) != std::string::npos
Found(line, word) == \E i \in DOMAIN line : line[i] \in Within(word)

IsHeader(line) ==
    Found(line, "Gaussian") /\ (Found(line, "Revision") \/ Found(line, "Inc."))

RECURSIVE ScanLines(_, _, _, _)
\* the loop from the line that starts at position i, line_count lines having
\* been examined: std::getline fails at the end of the text
ScanLines(t, i, line_count, limit) ==
    IF i > Len(t) \/ ~(line_count < limit) THEN FALSE
    ELSE IF IsHeader(SubSeq(t, i, LineEnd(t, i))) THEN TRUE
    ELSE ScanLines(t, LineEnd(t, i) + 2, line_count + 1, limit)

\* the loop that examines one line more
is_valid_output_file_OneMore(fs, filepath) ==
    IF fs[filepath] = NoFile THEN Return(FALSE, <<filepath>>)
    ELSE Return(ScanLines(fs[filepath], 1, 0, HeaderLines + 1), <<filepath>>)

is_valid_output_file(fs, filepath) ==
    IF fs[filepath] = NoFile THEN Return(FALSE, <<filepath>>)
    ELSE Return(ScanLines(fs[filepath], 1, 0, HeaderLines), <<filepath>>)

\* n lines without a header
Padding(line, n) == Concat([k \in 1..n |-> line])

PaddingLines == {<<"\n">>, <<" ", "Gaussian", "\n">>}

HeaderTexts ==
    {<<>>, VersionLine,
     <<" ", "Gaussian", ",", " ", "Inc.", "\n">>,
     <<" ", "Inc.", " ", "Gaussian">>,
     <<" ", "Gaussian", "\n", " ", "Revision", "\n">>,
     <<" ", "Revision", " ", "Inc.", "\n">>,
     <<" ", "Normal termination of Gaussian", " ", "Inc.", "\n">>}

InitHeader ==
    /\ files \in {[p \in Paths |-> IF p = "low.log" THEN t ELSE NoFile] :
                  t \in {NoFile} \cup {Padding(line, n) \o h :
                                          line \in PaddingLines, n \in 0..MaxPadding,
                                          h \in HeaderTexts}}
    /\ call = NoCall
    /\ extracted = [p \in Paths |-> <<>>]
    /\ NoRegistrations
    /\ workers = [w \in Workers |-> Idle]

IsValidOutputFile(p) ==
    /\ call' = [NoCall EXCEPT !.op = "is_valid_output_file", !.path = p,
                              !.out = is_valid_output_file(files, p)]
    /\ UNCHANGED <<workers, files, extracted, registryVars>>

NextHeader == \E p \in Paths : IsValidOutputFile(p)

SpecHeader == InitHeader /\ [][NextHeader]_vars

(***************************************************************************)
(* Properties of is_valid_output_file (checked under SpecHeader)           *)
(***************************************************************************)
\* the number of the line that holds position i of t
LineNumber(t, i) == 1 + Cardinality({k \in 1..(i - 1) : t[k] = "\n"})

\* no line ends between the positions i and j of t
SameLine(t, i, j) ==
    \A k \in (IF i < j THEN i ELSE j)..((IF i < j THEN j ELSE i) - 1) : t[k] # "\n"

\* the lines of t that hold "Gaussian" together with "Revision" or "Inc."
HeaderLineNumbers(t) ==
    {LineNumber(t, i) :
        i \in {i \in DOMAIN t :
                 /\ t[i] \in {"Gaussian", "Normal termination of Gaussian"}
                 /\ \E j \in DOMAIN t : /\ t[j] \in {"Revision", "Inc."}
                                        /\ SameLine(t, i, j)}}

\* C17: is_valid_output_file never throws; it returns false for a file that
\* cannot be opened, and for a file that can, true exactly when one of the
\* lines 1 to 50 holds "Gaussian" together with "Revision" or "Inc.".
C17_HeaderInFirstLines ==
    call.op = "is_valid_output_file" =>
        /\ ~call.out.thrown
        /\ ~Readable(call.path) => call.out.ret = <<FALSE>>
        /\ Readable(call.path) =>
              call.out.ret = <<\E n \in HeaderLineNumbers(files[call.path]) : n <= 50>>

C17_Witness ==
    /\ call.op = "is_valid_output_file"
    /\ Readable(call.path)
    /\ HeaderLineNumbers(files[call.path]) = {51}
    /\ call.out.ret = <<FALSE>>

(***************************************************************************)
(* GaussianProgram::get_dispersion_type.  The labels are spelt character   *)
(* by character, so that one label can occur within another.               *)
(***************************************************************************)
GD3 == <<"G", "D", "3">>
D3 == <<"D", "3">>
GD2 == <<"G", "D", "2">>
D2 == <<"D", "2">>
GD3BJ == <<"G", "D", "3", "B", "J">>
D3BJ == <<"D", "3", "B", "J">>

\* content.find(word) != std::string::npos
find(content, word) ==
    \E i \in 1..(Len(content) - Len(word) + 1) :
        SubSeq(content, i, i + Len(word) - 1) = word

DispersionOf(file) ==
    IF file.thrown THEN Return(<<>>, file.reads)
    ELSE IF find(file.ret[1], GD3) \/ find(file.ret[1], D3)
    THEN Return(<<"D3">>, file.reads)
    ELSE IF find(file.ret[1], GD2) \/ find(file.ret[1], D2)
    THEN Return(<<"D2">>, file.reads)
    ELSE IF find(file.ret[1], GD3BJ) \/ find(file.ret[1], D3BJ)
    THEN Return(<<"D3BJ">>, file.reads)
    ELSE Return(<<>>, file.reads)

get_dispersion_type(fs, filepath) == DispersionOf(parse_output_file(fs, filepath))

DispersionLines ==
    {<<" ">> \o label \o <<"\n">> : label \in {GD3, D3, GD2, D2, GD3BJ, D3BJ}}
    \cup {<<" ", "B", "3", "\n">>}

InitDispersion ==
    /\ files \in OneFile(DispersionLines)
    /\ call = NoCall
    /\ extracted = [p \in Paths |-> <<>>]
    /\ NoRegistrations
    /\ workers = [w \in Workers |-> Idle]

GetDispersionType(p) ==
    /\ call' = [NoCall EXCEPT !.op = "get_dispersion_type", !.path = p,
                              !.out = get_dispersion_type(files, p)]
    /\ UNCHANGED <<workers, files, extracted, registryVars>>

NextDispersion == \E p \in Paths : GetDispersionType(p)

SpecDispersion == InitDispersion /\ [][NextDispersion]_vars

(***************************************************************************)
(* Properties of get_dispersion_type (checked under SpecDispersion)        *)
(***************************************************************************)
\* the word w stands in t at position i
StandsAt(t, w, i) ==
    /\ i + Len(w) - 1 <= Len(t)
    /\ \A k \in DOMAIN w : t[i + k - 1] = w[k]

HasLabel(t, w) == \E i \in DOMAIN t : StandsAt(t, w, i)

\* C18: get_dispersion_type returns "D3BJ" for a text that holds "D3BJ" (so
\* also "GD3BJ"), "D3" for a text that holds "D3" but not "D3BJ", "D2" for a
\* text that holds "D2" and no "D3", and no value for a text without a label
\* and for a file that cannot be read.
C18_MostSpecificLabelFirst ==
    call.op = "get_dispersion_type" =>
        /\ ~call.out.thrown
        /\ call.out.ret =
             << IF ~Readable(call.path) THEN <<>>
                ELSE IF HasLabel(files[call.path], <<"D", "3", "B", "J">>)
                THEN <<"D3BJ">>
                ELSE IF HasLabel(files[call.path], <<"D", "3">>) THEN <<"D3">>
                ELSE IF HasLabel(files[call.path], <<"D", "2">>) THEN <<"D2">>
                ELSE <<>> >>

(***************************************************************************)
(* GaussianProgram::extract_frequencies                                    *)
(***************************************************************************)
\* a row label, the group ([-\d.]+) and twice (?:\s+([-\d.]+))?, then \s*
Row(label) == <<Lit(label), Ws0, Num, Ws0, OptNum, Ws0, OptNum, Ws0>>

freq_intensity_regex ==
    Row("Frequencies --") \o Row("Red. masses --") \o Row("Frc consts --")
    \o <<Lit("IR Inten --"), Ws0, Num, Ws0, OptNum, Ws0, OptNum>>

RECURSIVE PairLoop(_, _, _, _)
\* the body of the inner loop for column i of match k: frequency and
\* intensity are what std::stod made of the two groups; its exception ends
\* both loops with the pairs made so far
PairLoopBody(matches, k, i, pairs, frequency, intensity) ==
    IF frequency.ok /\ intensity.ok
    THEN PairLoop(matches, k, i + 1, Append(pairs, <<frequency.val, intensity.val>>))
    ELSE pairs

\* the loops over the matches and over the columns 1..3 of a match
PairLoop(matches, k, i, pairs) ==
    IF k > Len(matches) THEN pairs
    ELSE IF i > 3 THEN PairLoop(matches, k + 1, 1, pairs)
    ELSE IF matches[k].caps[i].matched /\ matches[k].caps[i + 9].matched
    THEN PairLoopBody(matches, k, i, pairs, stod(matches[k].caps[i].str),
                      stod(matches[k].caps[i + 9].str))
    ELSE PairLoop(matches, k, i + 1, pairs)

FrequenciesOf(file) ==
    IF file.thrown THEN Return(<<>>, file.reads)
    ELSE Return(PairLoop(sregex_iterator(file.ret[1], freq_intensity_regex, 1),
                         1, 1, <<>>), file.reads)

extract_frequencies(fs, filepath) == FrequenciesOf(parse_output_file(fs, filepath))

\* a row of a block: the label and the columns
RECURSIVE Columns(_, _)
Columns(cols, k) ==
    IF k > Len(cols) THEN <<"\n">>
    ELSE <<" ", " ">> \o cols[k] \o Columns(cols, k + 1)

BlockRow(label, cols) == <<" ", label>> \o Columns(cols, 1)

\* a block of the modes with the frequencies fs and the intensities is
Block(fs, is) ==
    BlockRow("Frequencies --", fs)
    \o BlockRow("Red. masses --", [k \in DOMAIN fs |-> N_5])
    \o BlockRow("Frc consts --", [k \in DOMAIN fs |-> N_0_1])
    \o BlockRow("IR Inten --", is)

FrequencyBlocks ==
    {Block(<<N_100_5>>, <<N_5>>),
     Block(<<N_m76_1, N_100_5>>, <<N_0_1, N_20>>),
     Block(<<N_5, N_100_5, N_m76_1>>, <<N_0_1, N_20, N_5>>),
     Block(<<N_5, N_100_5, N_m76_1>>, <<N_0_1, N_20>>),
     Block(<<N_100_5, N_dash>>, <<N_5, N_0_1>>),
     BlockRow("Frequencies --", <<N_100_5, N_5>>)}

InitFrequencies ==
    /\ files \in OneFile(FrequencyBlocks)
    /\ call = NoCall
    /\ extracted = [p \in Paths |-> <<>>]
    /\ NoRegistrations
    /\ workers = [w \in Workers |-> Idle]

ExtractFrequenciesOf(p) ==
    /\ call' = [NoCall EXCEPT !.op = "extract_frequencies", !.path = p,
                              !.out = extract_frequencies(files, p)]
    /\ UNCHANGED <<workers, files, extracted, registryVars>>

NextFrequencies == \E p \in Paths : ExtractFrequenciesOf(p)

SpecFrequencies == InitFrequencies /\ [][NextFrequencies]_vars

(***************************************************************************)
(* Properties of extract_frequencies (checked under SpecFrequencies)       *)
(***************************************************************************)
\* the column is populated with a number
Populated(column) == column.matched /\ stod(column.str).ok

\* the tuple of column i of a block, when both rows have the column
TupleOf(block, i) ==
    IF Populated(block.caps[i]) /\ Populated(block.caps[i + 9])
    THEN << <<stod(block.caps[i].str).val, stod(block.caps[i + 9].str).val>> >>
    ELSE <<>>

\* the tuples of the blocks, block after block, column after column
TuplesOf(blocks) ==
    Concat([k \in DOMAIN blocks |->
              TupleOf(blocks[k], 1) \o TupleOf(blocks[k], 2) \o TupleOf(blocks[k], 3)])

\* C19: extract_frequencies never throws; for a file it cannot read it
\* returns the empty list; for a file it can read it returns, in the order
\* of the file, for every block and every column i of 1..3 that the block
\* has in its "Frequencies --" row and in its "IR Inten --" row, the tuple
\* of the two numbers.
C19_TuplesInFileOrder ==
    call.op = "extract_frequencies" =>
        /\ ~call.out.thrown
        /\ ~Readable(call.path) => call.out.ret = << <<>> >>
        /\ Readable(call.path) =>
              call.out.ret =
                 <<TuplesOf(sregex_iterator(files[call.path], freq_intensity_regex, 1))>>

(***************************************************************************)
(* GaussianProgram::create_input_file.  The text written is the sequence   *)
(* of the strings inserted into the stream.  The stream may fail to open,  *)
(* and the device may take only the first `room` of the strings; a         *)
(* std::ofstream reports neither by an exception.                          *)
(***************************************************************************)
MaxKeywords == 1

\* filepath.substr(0, filepath.find_last_of('.'))
Stem(filepath) ==
    CASE filepath = "low.log" -> "low"
      [] filepath = "high.log" -> "high"
      [] OTHER -> filepath

RECURSIVE KeywordsOf(_, _)
KeywordsOf(keywords, k) ==
    IF k > Len(keywords) THEN <<>>
    ELSE <<" ", keywords[k]>> \o KeywordsOf(keywords, k + 1)

\* all that create_input_file inserts into the stream, in order
Skeleton(filepath, method, keywords) ==
    <<"%chk=", Stem(filepath), ".chk\n", "%mem=4GB\n", "%nprocshared=4\n",
      "#p ", method>>
    \o KeywordsOf(keywords, 1)
    \o <<"\n\n", "Generated by ComChemKit\n\n", "0 1\n", "C 0.0 0.0 0.0\n", "\n">>

\* the file after the call: untouched when the stream did not open, else
\* what the device took of the text
Written(fs, filepath, text, opens, room) ==
    IF ~opens THEN fs[filepath]
    ELSE SubSeq(text, 1, IF room < Len(text) THEN room ELSE Len(text))

create_input_file(filepath, method, keywords, opens) ==
    IF ~opens THEN Return(FALSE, <<>>) ELSE Return(TRUE, <<>>)

Methods == {"B3LYP"}

\* the path written
InputPaths == {"low.log"}

KeywordLists == SeqsUpTo({"opt"}, MaxKeywords)

\* the most strings a call inserts
MaxRoom == 12 + 2 * MaxKeywords

InitInput ==
    /\ files = [p \in Paths |-> NoFile]
    /\ call = NoCall
    /\ extracted = [p \in Paths |-> <<>>]
    /\ NoRegistrations
    /\ workers = [w \in Workers |-> Idle]

CreateInputFile(p, method, keywords, opens, room) ==
    /\ call' = [method |-> method, keywords |-> keywords, opens |-> opens,
                room |-> room]
               @@ [NoCall EXCEPT !.op = "create_input_file", !.path = p,
                                 !.out = create_input_file(p, method, keywords, opens)]
    /\ files' = [files EXCEPT
                   ![p] = Written(files, p, Skeleton(p, method, keywords), opens, room)]
    /\ UNCHANGED <<workers, extracted, registryVars>>

NextInput ==
    \E p \in InputPaths, method \in Methods, keywords \in KeywordLists,
       opens \in BOOLEAN, room \in 0..MaxRoom :
        CreateInputFile(p, method, keywords, opens, room)

SpecInput == InitInput /\ [][NextInput]_vars

(***************************************************************************)
(* Properties of create_input_file (checked under SpecInput)               *)
(***************************************************************************)
\* C20: create_input_file never throws, and it returns true exactly when the
\* file was opened and holds the whole skeleton after the call: header,
\* route line with the method and the keywords, title, charge and
\* multiplicity, geometry.
C20_TrueOnlyIfWritten ==
    call.op = "create_input_file" =>
        /\ ~call.out.thrown
        /\ call.out.ret =
             << /\ call.opens
                /\ files[call.path] = Skeleton(call.path, call.method, call.keywords) >>

(***************************************************************************)
(* Concurrent calls on one GaussianProgram.  A call reads its file with    *)
(* parse_output_file into a local (get_metadata a second time, within      *)
(* check_job_status), then computes its result from its locals; the steps  *)
(* of the threads interleave.  The class has no data member but the        *)
(* static const patterns.                                                  *)
(***************************************************************************)
BackendOps == {"extract_energies", "get_metadata", "check_job_status"}

\* the locals of a thread: a variable kept in one place for all the threads
LocalsOf_Static(ws, w) ==
    IF \E v \in Workers : ws[v].file # <<>>
    THEN [ws[w] EXCEPT !.file = ws[CHOOSE v \in Workers : ws[v].file # <<>>].file]
    ELSE ws[w]

\* the locals of a thread: automatic variables of the call
LocalsOf(ws, w) == ws[w]

\* the file system as the read that gave `file` saw the path
AsRead(fs, filepath, file) ==
    [fs EXCEPT ![filepath] = IF file[1].thrown THEN NoFile ELSE file[1].ret[1]]

\* the result of the call of a thread from what its reads gave
ResultOf(fs, l) ==
    CASE l.op = "extract_energies" ->
           CatchAndRethrow(l.path, TryExtract(l.file[1]))
      [] l.op = "check_job_status" ->
           check_job_status(AsRead(fs, l.path, l.file), l.path)
      [] l.op = "get_metadata" ->
           MetadataOf(fs, l.path, [CalculationMetadata EXCEPT !.file_path = l.path],
                      l.file[1],
                      IF l.status_file = <<>> THEN Done
                      ELSE check_job_status(AsRead(fs, l.path, l.status_file), l.path))

WorkerLines ==
    {ScfLine(N_m76_1), ScfLine(N_5), FreqLine(N_100_5, N_dash),
     RouteLine("B3LYP", "6-31G"), MarkerLine("Error termination")}

InitWorkers ==
    /\ files \in OneFile(WorkerLines)
    /\ call = NoCall
    /\ extracted = [p \in Paths |-> <<>>]
    /\ NoRegistrations
    /\ workers = [w \in Workers |-> Idle]

\* a thread enters a call
Begin(w, op, p) ==
    /\ workers[w].pc \in {"idle", "done"}
    /\ workers' = [workers EXCEPT ![w] = [Idle EXCEPT !.op = op, !.path = p, !.pc = "read"]]
    /\ UNCHANGED <<files, call, extracted, registryVars>>

\* the thread reads its file: std::string content = parse_output_file(filepath)
ReadFile(w) ==
    /\ workers[w].pc = "read"
    /\ workers' =
         [workers EXCEPT
            ![w].file = <<parse_output_file(files, workers[w].path)>>,
            ![w].pc = IF workers[w].op = "get_metadata"
                         /\ ~parse_output_file(files, workers[w].path).thrown
                      THEN "read_status" ELSE "compute"]
    /\ UNCHANGED <<files, call, extracted, registryVars>>

\* get_metadata calls check_job_status, which reads the file again
ReadStatusFile(w) ==
    /\ workers[w].pc = "read_status"
    /\ workers' =
         [workers EXCEPT
            ![w].status_file = <<parse_output_file(files, workers[w].path)>>,
            ![w].pc = "compute"]
    /\ UNCHANGED <<files, call, extracted, registryVars>>

\* the thread computes its result from its locals and returns
Finish(w) ==
    /\ workers[w].pc = "compute"
    /\ workers' =
         [workers EXCEPT
            ![w].out = <<ResultOf(files, LocalsOf(workers, w))>>,
            ![w].pc = "done"]
    /\ UNCHANGED <<files, call, extracted, registryVars>>

NextWorkers ==
    \/ \E w \in Workers, op \in BackendOps, p \in Paths : Begin(w, op, p)
    \/ \E w \in Workers : ReadFile(w)
    \/ \E w \in Workers : ReadStatusFile(w)
    \/ \E w \in Workers : Finish(w)

SpecWorkers == InitWorkers /\ [][NextWorkers]_vars

(***************************************************************************)
(* Properties of concurrent calls (checked under SpecWorkers)              *)
(***************************************************************************)
\* the result of the call made alone
Alone(op, p) ==
    CASE op = "extract_energies" -> extract_energies(files, p)
      [] op = "check_job_status" -> check_job_status(files, p)
      [] op = "get_metadata" -> get_metadata(files, p)

\* C21: however the steps of the threads interleave, a call that has
\* returned has the result of the same call made alone, and no step changes
\* the files or the registry.
C21_SameResultAsAlone ==
    /\ [](\A w \in Workers :
            workers[w].pc = "done"
               => workers[w].out = <<Alone(workers[w].op, workers[w].path)>>)
    /\ [][files' = files /\ program_registry' = program_registry]_vars

C21_Witness ==
    /\ workers["w1"].pc = "done"
    /\ workers["w1"].op = "extract_energies"
    /\ workers["w1"].path = "low.log"
    /\ workers["w1"].out = <<extract_energies(files, "low.log")>>
    /\ ~workers["w1"].out[1].thrown
    /\ workers["w2"].pc = "read_status"
    /\ workers["w2"].path = "low.log"

(***************************************************************************)
(* The frequencies of extract_energies (checked under Spec)                *)
(***************************************************************************)
\* the end of the word of t that starts at i
WordEnd(t, i) ==
    IF FindFirst(t, WhiteSpace, i) = 0 THEN Len(t) ELSE FindFirst(t, WhiteSpace, i) - 1

RECURSIVE ColumnsFrom(_, _, _)
\* the words of t between the positions i and end, left to right
ColumnsFrom(t, i, end) ==
    IF i > end THEN <<>>
    ELSE IF t[i] \in WhiteSpace THEN ColumnsFrom(t, i + 1, end)
    ELSE <<SubSeq(t, i, WordEnd(t, i))>> \o ColumnsFrom(t, WordEnd(t, i) + 1, end)

\* the numbers of the columns of one line, of which there are three at most
NumbersOf(columns) ==
    [k \in 1..(IF Len(columns) < 3 THEN Len(columns) ELSE 3) |-> stod(columns[k]).val]

RECURSIVE FrequencyColumns(_, _)
\* the numbers that stand in the "Frequencies --" lines of t from position i
\* on, line after line and left to right within a line
FrequencyColumns(t, i) ==
    IF i > Len(t) THEN <<>>
    ELSE IF t[i] = "Frequencies --"
    THEN NumbersOf(ColumnsFrom(t, i + 1, LineEnd(t, i))) \o FrequencyColumns(t, i + 1)
    ELSE FrequencyColumns(t, i + 1)

MaxArgs == 3

\* std::stoi: an optional sign and the longest run of digits; it throws
\* std::invalid_argument without a digit and std::out_of_range beyond int
\* (here: for every run of more than nine digits)
StoiConvert(s, neg, i0, i1) ==
    IF i1 = i0 THEN [ok |-> FALSE, val |-> 0, what |-> "stoi"]
    ELSE IF i1 - i0 > 9 THEN [ok |-> FALSE, val |-> 0, what |-> "stoi"]
    ELSE [ok |-> TRUE,
          val |-> (IF neg THEN -1 ELSE 1) * DigitsValue(s, i0, i1, 0),
          what |-> ""]

stoi(s) ==
    IF Len(s) >= 1 /\ s[1] = "-"
    THEN StoiConvert(s, TRUE, 2, DigitRunEnd(s, 2))
    ELSE StoiConvert(s, FALSE, 1, DigitRunEnd(s, 1))

\* std::stoull: as std::stoi, but a value with a minus sign is negated in
\* size_t: the value -n of the model stands for 2^64 - n
stoull(s) ==
    IF Len(s) >= 1 /\ s[1] = "-"
    THEN StoiConvert(s, TRUE, 2, DigitRunEnd(s, 2))
    ELSE StoiConvert(s, FALSE, 1, DigitRunEnd(s, 1))

\* struct CommandContext as default-constructed (cck_command_system.h)
CommandContext ==
    [command |-> "NONE",
     temperature |-> Dbl(29815, 2),
     concentration |-> Dbl(1, 0),
     thread_count |-> -1,
     sort_column |-> 2,
     format |-> <<"text">>,
     extension |-> <<"log">>,
     quiet |-> FALSE,
     max_file_size |-> 100,
     memory_limit |-> 0,
     warnings |-> <<>>]

\* the default values parse applies before it reads the arguments
AppliedDefaults ==
    [CommandContext EXCEPT
       !.command = "EXTRACT",
       !.temperature = Dbl(29815, 2),
       !.concentration = Dbl(1, 0),
       !.thread_count = -1,
       !.sort_column = 2,
       !.format = <<"text">>,
       !.extension = <<".", "log">>,
       !.quiet = FALSE,
       !.max_file_size = 100,
       !.memory_limit = 0]

parse_command(cmd) ==
    CASE cmd = <<"extract">> -> "EXTRACT"
      [] cmd = <<"check-done">> -> "CHECK_DONE"
      [] cmd = <<"check-errors">> -> "CHECK_ERRORS"
      [] cmd = <<"check-pcm">> -> "CHECK_PCM"
      [] cmd = <<"check-all">> -> "CHECK_ALL"
      [] cmd = <<"high-level-kj">> -> "HIGH_LEVEL_KJ"
      [] cmd = <<"high-level-au">> -> "HIGH_LEVEL_AU"
      [] OTHER -> "EXTRACT"

\* context.warnings.push_back(w)
Warn(context, w) == [context EXCEPT !.warnings = Append(@, <<w>>)]

\* ++i < argc for the option at i
Follows(argv, i) == i + 1 <= Len(argv)

Ext(context, argv, i) ==
    IF Follows(argv, i)
    THEN [context EXCEPT
            !.extension = IF Len(argv[i + 1]) >= 1 /\ argv[i + 1][1] = "."
                          THEN argv[i + 1] ELSE <<".">> \o argv[i + 1]]
    ELSE Warn(context, "Error: Extension required after --ext")

ThreadsValue(context, r) ==
    IF ~r.ok
    THEN [Warn(context, "Error: Invalid thread count. Using auto-detection.")
            EXCEPT !.thread_count = -1]
    ELSE IF r.val > 0 THEN [context EXCEPT !.thread_count = r.val]
    ELSE [Warn(context, "Error: Thread count must be positive. Using auto-detection.")
            EXCEPT !.thread_count = -1]

Threads(context, argv, i) ==
    IF Follows(argv, i) THEN ThreadsValue(context, stoi(argv[i + 1]))
    ELSE Warn(context, "Error: Thread count required after --threads")

MaxSizeValue(context, r) ==
    IF r.ok THEN [context EXCEPT !.max_file_size = r.val]
    ELSE Warn(context, "Error: Invalid file size. Using default.")

MaxSize(context, argv, i) ==
    IF Follows(argv, i) THEN MaxSizeValue(context, stoull(argv[i + 1]))
    ELSE Warn(context, "Error: File size required after --max-size")

MemoryValue(context, r) ==
    IF r.ok THEN [context EXCEPT !.memory_limit = r.val]
    ELSE Warn(context, "Error: Invalid memory limit. Using auto-detection.")

Memory(context, argv, i) ==
    IF Follows(argv, i) THEN MemoryValue(context, stoull(argv[i + 1]))
    ELSE Warn(context, "Error: Memory limit required after --memory")

Format(context, argv, i) ==
    IF ~Follows(argv, i) THEN Warn(context, "Error: Format required after --format")
    ELSE IF argv[i + 1] \in {<<"text">>, <<"csv">>, <<"json">>}
    THEN [context EXCEPT !.format = argv[i + 1]]
    ELSE [Warn(context,
               "Error: Format must be 'text', 'csv', or 'json'. Using default 'text'.")
            EXCEPT !.format = <<"text">>]

TempValue(context, r) ==
    IF ~r.ok
    THEN [Warn(context, "Error: Invalid temperature format. Using default 298.15 K.")
            EXCEPT !.temperature = Dbl(29815, 2)]
    ELSE IF DblGreater(r.val, 0) THEN [context EXCEPT !.temperature = r.val]
    ELSE [Warn(context, "Warning: Temperature must be positive. Using default 298.15 K.")
            EXCEPT !.temperature = Dbl(29815, 2)]

Temp(context, argv, i) ==
    IF Follows(argv, i) THEN TempValue(context, stod(argv[i + 1]))
    ELSE Warn(context, "Error: Temperature required after --temp")

ConcValue(context, r) ==
    IF ~r.ok
    THEN [Warn(context, "Error: Invalid concentration format. Using default 1.0.")
            EXCEPT !.concentration = Dbl(1, 0)]
    ELSE IF DblGreater(r.val, 0) THEN [context EXCEPT !.concentration = r.val]
    ELSE [Warn(context, "Error: Concentration must be positive. Using default 1.0.")
            EXCEPT !.concentration = Dbl(1, 0)]

Conc(context, argv, i) ==
    IF Follows(argv, i) THEN ConcValue(context, stod(argv[i + 1]))
    ELSE Warn(context, "Error: Concentration required after --conc")

SortValue(context, r) ==
    IF ~r.ok
    THEN [Warn(context, "Error: Invalid sort column. Using default 2.")
            EXCEPT !.sort_column = 2]
    ELSE IF r.val >= 1 /\ r.val <= 10 THEN [context EXCEPT !.sort_column = r.val]
    ELSE [Warn(context, "Error: Sort column must be between 1 and 10. Using default 2.")
            EXCEPT !.sort_column = 2]

Sort(context, argv, i) ==
    IF Follows(argv, i) THEN SortValue(context, stoi(argv[i + 1]))
    ELSE Warn(context, "Error: Sort column required after --sort")

\* the options every command takes, and the ones of them that take a value
CommonOptions ==
    {<<"-q">>, <<"--quiet">>, <<"-e">>, <<"--ext">>, <<"-j">>, <<"--threads">>,
     <<"--max-size">>, <<"--memory">>, <<"--format">>}

\* the options of the branch of the extract command; each takes a value
ExtractOptions == {<<"-t">>, <<"--temp">>, <<"-c">>, <<"--conc">>, <<"--sort">>}

\* the branch of the extract command: another argument is passed over
ExtractOption(context, argv, i) ==
    IF argv[i] \in {<<"-t">>, <<"--temp">>} THEN Temp(context, argv, i)
    ELSE IF argv[i] \in {<<"-c">>, <<"--conc">>} THEN Conc(context, argv, i)
    ELSE IF argv[i] = <<"--sort">> THEN Sort(context, argv, i)
    ELSE context

\* the body of the loop for the argument at i
Option(context, argv, i) ==
    IF argv[i] \in {<<"-q">>, <<"--quiet">>} THEN [context EXCEPT !.quiet = TRUE]
    ELSE IF argv[i] \in {<<"-e">>, <<"--ext">>} THEN Ext(context, argv, i)
    ELSE IF argv[i] \in {<<"-j">>, <<"--threads">>} THEN Threads(context, argv, i)
    ELSE IF argv[i] = <<"--max-size">> THEN MaxSize(context, argv, i)
    ELSE IF argv[i] = <<"--memory">> THEN Memory(context, argv, i)
    ELSE IF argv[i] = <<"--format">> THEN Format(context, argv, i)
    ELSE IF context.command = "EXTRACT" THEN ExtractOption(context, argv, i)
    ELSE Warn(context, <<"Warning: Unknown argument '", argv[i], "' ignored.">>)

\* the index of the argument the loop reads after the one at i
After(command, argv, i) ==
    IF argv[i] \in CommonOptions \ {<<"-q">>, <<"--quiet">>} THEN i + 2
    ELSE IF command = "EXTRACT" /\ argv[i] \in ExtractOptions THEN i + 2
    ELSE i + 1

RECURSIVE ParseLoop(_, _, _)
ParseLoop(argv, i, context) ==
    IF i > Len(argv) THEN context
    ELSE ParseLoop(argv, After(context.command, argv, i), Option(context, argv, i))

\* the arguments that end the program: it prints and calls std::exit(0)
VersionOptions == {<<"--version">>, <<"-v">>}

HelpOptions == {<<"--help">>, <<"-h">>}

Exited(printed) == [exited |-> TRUE, printed |-> printed, context |-> <<>>]

Parsed(context) == [exited |-> FALSE, printed |-> "", context |-> <<context>>]

\* the loop that looks for the version and help options
EarlyCheck(argv) ==
    IF argv[FindFirst(argv, VersionOptions \cup HelpOptions, 1)] \in VersionOptions
    THEN Exited("version") ELSE Exited("help")

parse(argv) ==
    IF FindFirst(argv, VersionOptions \cup HelpOptions, 1) # 0 THEN EarlyCheck(argv)
    ELSE IF argv = <<>> THEN Parsed(AppliedDefaults)
    ELSE IF parse_command(argv[1]) # "EXTRACT" \/ argv[1] = <<"extract">>
    THEN Parsed(ParseLoop(argv, 2,
                          [AppliedDefaults EXCEPT !.command = parse_command(argv[1])]))
    ELSE Parsed(ParseLoop(argv, 1, AppliedDefaults))

\* the arguments given to the program
Arguments ==
    {<<"extract">>, <<"high-level-kj">>, <<"high-level-au">>}
    \cup {<<"-q">>, <<"--ext">>, <<"-j">>, <<"--max-size">>, <<"--memory">>,
          <<"--format">>, <<"-t">>, <<"--temp">>, <<"--conc">>, <<"--sort">>,
          <<"--help">>}
    \cup {<<"5">>, <<"0">>, <<"3", "0", "0", ".", "5">>, <<"csv">>}

InitCommand ==
    /\ files = [p \in Paths |-> NoFile]
    /\ call = NoCall
    /\ extracted = [p \in Paths |-> <<>>]
    /\ NoRegistrations
    /\ workers = [w \in Workers |-> Idle]

\* main parses the arguments of the process once
Parse(argv) ==
    /\ call = NoCall
    /\ call' = [op |-> "parse", argv |-> argv, out |-> parse(argv)]
    /\ UNCHANGED <<workers, files, extracted, registryVars>>

NextCommand == \E argv \in SeqsUpTo(Arguments, MaxArgs) : Parse(argv)

SpecCommand == InitCommand /\ [][NextCommand]_vars

(***************************************************************************)
(* Properties of CommandParser::parse (checked under SpecCommand)          *)
(***************************************************************************)
ParseCall == call.op = "parse"

\* the context a parse call returned
Context == call.out.context[1]

CommandNames ==
    {<<"extract">>, <<"check-done">>, <<"check-errors">>, <<"check-pcm">>,
     <<"check-all">>, <<"high-level-kj">>, <<"high-level-au">>}

\* the fields an option sets, and the names of the option for a command
OptionFields ==
    {"extension", "thread_count", "max_file_size", "memory_limit", "format",
     "temperature", "concentration", "sort_column"}

OptionsOf(field, command) ==
    CASE field = "extension" -> {<<"-e">>, <<"--ext">>}
      [] field = "thread_count" -> {<<"-j">>, <<"--threads">>}
      [] field = "max_file_size" -> {<<"--max-size">>}
      [] field = "memory_limit" -> {<<"--memory">>}
      [] field = "format" -> {<<"--format">>}
      [] field = "temperature" ->
           IF command = "EXTRACT" THEN {<<"-t">>, <<"--temp">>} ELSE {}
      [] field = "concentration" ->
           IF command = "EXTRACT" THEN {<<"-c">>, <<"--conc">>} ELSE {}
      [] field = "sort_column" ->
           IF command = "EXTRACT" THEN {<<"--sort">>} ELSE {}

\* the value v is not one the option of the field takes
Rejected(field, v) ==
    CASE field = "extension" -> FALSE
      [] field = "thread_count" -> ~stoi(v).ok \/ stoi(v).val <= 0
      [] field = "max_file_size" -> ~stoull(v).ok
      [] field = "memory_limit" -> ~stoull(v).ok
      [] field = "format" -> v \notin {<<"text">>, <<"csv">>, <<"json">>}
      [] field = "temperature" -> ~stod(v).ok \/ ~DblGreater(stod(v).val, 0)
      [] field = "concentration" -> ~stod(v).ok \/ ~DblGreater(stod(v).val, 0)
      [] field = "sort_column" -> ~stoi(v).ok \/ stoi(v).val < 1 \/ stoi(v).val > 10

RECURSIVE OptionPositions(_, _, _)
\* the positions of argv, from i on, at which an argument is read as an
\* option and not as the value of the option before it
OptionPositions(command, argv, i) ==
    IF i > Len(argv) THEN {}
    ELSE {i} \cup OptionPositions(command, argv, After(command, argv, i))

FirstOption(argv) == IF argv # <<>> /\ argv[1] \in CommandNames THEN 2 ELSE 1

\* the option of the field stands at i and its value is missing or rejected
Refused(field, command, argv, i) ==
    /\ argv[i] \in OptionsOf(field, command)
    /\ i = Len(argv) \/ Rejected(field, argv[i + 1])

\* the positions at which the value of an option is missing or rejected
RefusedAt(command, argv) ==
    {i \in OptionPositions(command, argv, FirstOption(argv)) :
        \E field \in OptionFields : Refused(field, command, argv, i)}

\* the last position at which the option of the field stands
LastOf(field, command, argv, i) ==
    /\ i \in OptionPositions(command, argv, FirstOption(argv))
    /\ argv[i] \in OptionsOf(field, command)
    /\ \A j \in OptionPositions(command, argv, FirstOption(argv)) :
          argv[j] \in OptionsOf(field, command) => j <= i

\* C29: for arguments without a version or help option parse returns a
\* context whose format is text, csv or json, whose thread_count is -1 or
\* positive, whose sort_column is within 1..10, whose temperature and
\* concentration are positive and whose extension begins with a point; every
\* option value that is missing or rejected has added a warning, and the
\* field of an option whose value was missing or rejected is at its default.
C29_ValidatedContext ==
    (ParseCall /\ \A i \in DOMAIN call.argv :
                     call.argv[i] \notin VersionOptions \cup HelpOptions) =>
        /\ ~call.out.exited
        /\ Len(call.out.context) = 1
        /\ Context.format \in {<<"text">>, <<"csv">>, <<"json">>}
        /\ Context.thread_count = -1 \/ Context.thread_count > 0
        /\ Context.sort_column \in 1..10
        /\ DblGreater(Context.temperature, 0)
        /\ DblGreater(Context.concentration, 0)
        /\ Context.extension # <<>> /\ Context.extension[1] = "."
        /\ Len(Context.warnings) >= Cardinality(RefusedAt(Context.command, call.argv))
        /\ \A field \in OptionFields : \A i \in DOMAIN call.argv :
              ( /\ LastOf(field, Context.command, call.argv, i)
                /\ Refused(field, Context.command, call.argv, i) )
              => Context[field] = AppliedDefaults[field]

\* C30: the high-level commands accept the temperature option: for
\* "high-level-kj --temp T" and "high-level-au --temp T", also with -t for
\* --temp, and T a number above zero, parse returns a context whose temperature
\* is T and which holds no warning.
C30_TempAcceptedByHighLevel ==
    ( /\ ParseCall
      /\ Len(call.argv) = 3
      /\ call.argv[1] \in {<<"high-level-kj">>, <<"high-level-au">>}
      /\ call.argv[2] \in {<<"--temp">>, <<"-t">>}
      /\ stod(call.argv[3]).ok
      /\ DblGreater(stod(call.argv[3]).val, 0) )
    => /\ ~call.out.exited
       /\ Context.temperature = stod(call.argv[3]).val
       /\ Context.warnings = <<>>

====
